---- MODULE Spec2Model ----
(***************************************************************************)
(* A model of the onecode-rs safe wrapper (src/src/file.rs,                *)
(* src/src/schema.rs) over the native ONE library.                         *)
(*                                                                         *)
(* The read handle is a cursor over a file, a sequence of typed lines.     *)
(* The group-metadata scanners of file.rs are translated loop by loop; the *)
(* native primitives they drive (oneReadLine, oneGoto) follow the          *)
(* documented contract of their wrappers.                                  *)
(***************************************************************************)
EXTENDS Integers, Sequences, FiniteSets, TLC

VARIABLES
    file,       \* the lines of the file behind the read handle
    isBinary,   \* whether the file is binary, and so carries an object index
    pos,        \* cursor: the number of lines that precede the next read_line
    cur,        \* the current record: line type, field 0, string list
    line,       \* (*self.ptr).line, the current line number
    res,        \* the last scanner call: operation, argument, result, pre-call cursor
    \* threads calling an open entry point of OneFile
    oentry,       \* the entry point each thread calls
    opc,          \* where each thread stands in its call
    opath,        \* the path each thread opens
    otype,        \* the file type each thread expects, if any
    optr,         \* what the native open returned to each thread
    oresult,      \* what open_read returned to each thread
    raced,        \* whether another thread ran the native header parse beside it
    errorString,  \* the native error buffer, one per thread
    isBootStrap,  \* the native process-wide bootstrap flag
    \* threads calling OneSchema::from_text
    spc,          \* where each thread stands in its call
    stext,        \* the schema text each thread passes
    sptr,         \* what the native call returned to each thread
    sresult,      \* what from_text returned to each thread
    schemaLock,   \* SCHEMA_FROM_TEXT_LOCK: the thread holding it, or 0
    tmpFile,      \* the native temporary schema file of the process
    \* the field array of a handle
    nField,       \* the number of slots of the array
    field,        \* the slots, numbered from 0
    outside,      \* the memory that follows the array
    got,          \* the value the last accessor returned
    oob,          \* whether an accessor has touched memory outside the array
    \* the lifetimes of handles
    handles,      \* per handle: its stage, ptr, is_owned, and the native closes
    \* a write handle, and the read handle opened on its file afterwards
    wstage,       \* "none", "writing", or "reading" once the writer is closed
    wfield,       \* the field array of the write handle
    wgiven,       \* the values the setters were called with, per slot
    wlines,       \* the lines written to the file
    winputs,      \* the lines as the caller gave them
    waccum,       \* the write handle's count, max and total per line type
    provenance,   \* the provenance list of the header
    reference,    \* the reference list of the header
    wres,         \* the last header or statistics call and what it returned
    given,        \* the statistics in the header of the written file
    rpos,         \* the number of lines the read handle has read
    rtype,        \* the line type the last read_line returned
    rfield,       \* the field array of the read handle
    rlist,        \* the list buffer of the read handle
    raccum,       \* the read handle's count, max and total per line type
    robs,         \* what the accessors returned on the line last looked at
    wcomments,    \* the comments written: the number of the line each is attached to
    \* the native index of the 'A' lines and the list of the current line
    aindex,       \* info['A']: whether it has an index, indexSize, given.count, the array
    ires,         \* the last byte-offset call and what it returned
    lline,        \* the current line: its schema entry, list-length slot and list pointers
    lres          \* the last list accessor call and what it returned

scanVars == <<file, isBinary, pos, cur, line, res>>

openVars == <<oentry, opc, opath, otype, optr, oresult, raced, errorString, isBootStrap>>

schemaVars == <<spc, stext, sptr, sresult, schemaLock, tmpFile>>

fieldVars == <<nField, field, outside, got, oob>>

closeVars == <<handles>>

writeVars ==
    <<wstage, wfield, wgiven, wlines, winputs, waccum, provenance, reference,
      wres, given, rpos, rtype, rfield, rlist, raccum, robs, wcomments>>

accessVars == <<aindex, ires, lline, lres>>

vars == <<scanVars, openVars, schemaVars, fieldVars, closeVars, writeVars, accessVars>>

----------------------------------------------------------------------------
(* Bounds of the model *)

\* Files of up to MaxLines lines are enumerated for the navigating handle, files
\* of up to MaxScanLines lines for the scanners called on a fresh handle.
MaxLines == 2
MaxScanLines == 4
\* The line counter may exceed the length of the file by MaxLineNo.
MaxLineNo == 2
\* Contig IDs passed to the scanners range over 0..MaxArg, group numbers over
\* -1..MaxArg.
MaxArg == 2
\* The number of threads that call an entry point concurrently.
NThreads == 2
\* The field array of a handle has up to MaxFields slots, of values 0..MaxVal.
MaxFields == 2
MaxVal == 2
\* The number of handles opened, closed and dropped.
NHandles == 3

\* The most lines a write handle writes.
MaxWritten == 2

\* The most characters of a scaffold name passed to trim_sequence_name.
MaxName == 4

\* The most entries of the provenance list, and of the reference list.
MaxHeader == 2

----------------------------------------------------------------------------
(* Lines and files *)

EndTag == "EOF"

Ln(t, i, s) == [t |-> t, i |-> i, s |-> s]

NoLine == Ln("", 0, <<>>)

WhiteSpace == {" "}

LineAlphabet ==
    { Ln("g", 0, <<>>),
      Ln("S", 0, <<"x">>),
      Ln("S", 0, <<"y", " ", "z">>),
      Ln("C", 1, <<>>),
      Ln("G", 2, <<>>),
      Ln("A", 0, <<>>),
      Ln("a", 0, <<>>),
      Ln("M", 0, <<>>) }

chrA == <<"c", "h", "r", "A">>
chrB == <<"c", "h", "r", "B">>

\* The synthetic two-group file of the testable properties, without and with
\* an alignment section behind it.
TwoGroups ==
    << Ln("g", 0, <<>>), Ln("S", 0, chrA), Ln("C", 100, <<>>), Ln("G", 10, <<>>),
       Ln("C", 50, <<>>), Ln("g", 0, <<>>), Ln("S", 0, chrB), Ln("C", 200, <<>>) >>

TwoGroupsAln == TwoGroups \o << Ln("A", 0, <<>>), Ln("A", 1, <<>>) >>

\* Group 1 holding two contigs, then group 2.
TwoContigsThenGroup ==
    << Ln("g", 0, <<>>), Ln("S", 0, <<"x">>), Ln("C", 1, <<>>), Ln("C", 1, <<>>),
       Ln("g", 0, <<>>), Ln("S", 0, <<"y", " ", "z">>), Ln("C", 1, <<>>) >>

ExampleFiles == { TwoGroups, TwoGroupsAln, TwoContigsThenGroup }

FilesUpTo(n) == UNION { [1..k -> LineAlphabet] : k \in 0..n }

Files == FilesUpTo(MaxLines) \cup ExampleFiles

ScanFiles == FilesUpTo(MaxScanLines) \cup ExampleFiles

Range(s) == { s[k] : k \in DOMAIN s }

\* Types that start an object and so carry a binary index.
ObjectTypes == {"g", "S", "A", "a"}

\* The positions of the lines of type t, and the position of the i-th of them.
Positions(t) == { j \in 1..Len(file) : file[j].t = t }

Count(t) == Cardinality(Positions(t))

Nth(t, i) ==
    CHOOSE j \in Positions(t) : Cardinality({ k \in Positions(t) : k <= j }) = i

----------------------------------------------------------------------------
(* The native primitives, on a handle h = [pos, cur, line] *)

Handle == [pos |-> pos, cur |-> cur, line |-> line]

\* oneReadLine: the next line becomes the current record; at end of input the
\* line type becomes the end tag.
oneReadLine(h) ==
    IF h.pos < Len(file)
    THEN [pos |-> h.pos + 1, cur |-> file[h.pos + 1], line |-> h.line + 1]
    ELSE [h EXCEPT !.cur = [h.cur EXCEPT !.t = EndTag]]

\* oneGoto: objects are numbered from 1; 0 is the start of the data.
oneGoto(h, t, i) ==
    LET ok == isBinary /\ t \in ObjectTypes /\ i >= 0 /\ i <= Count(t)
    IN  [ ok |-> ok,
          h  |-> IF ~ok THEN h
                 ELSE [h EXCEPT !.pos = IF i = 0 THEN 0 ELSE Nth(t, i) - 1] ]

----------------------------------------------------------------------------
(* Helpers of the scanners *)

RECURSIVE SkipWhitespace(_)
SkipWhitespace(s) ==
    IF s = <<>> THEN <<>>
    ELSE IF Head(s) \in WhiteSpace THEN SkipWhitespace(Tail(s)) ELSE s

RECURSIVE TakeWord(_)
TakeWord(s) ==
    IF s = <<>> \/ Head(s) \in WhiteSpace THEN <<>>
    ELSE <<Head(s)>> \o TakeWord(Tail(s))

\* name.split_whitespace().next().unwrap_or(name)
trim_sequence_name(name) ==
    LET w == SkipWhitespace(name)
    IN  IF w = <<>> THEN name ELSE TakeWord(w)

EmptyMap == <<>>

Insert(m, k, v) == [x \in DOMAIN m \cup {k} |-> IF x = k THEN v ELSE m[x]]

\* for cid in scaffold_contigs.iter() { lengths.insert(*cid, current_scaffold_length) }
CommitScaffold(lengths, scaffold_contigs, len) ==
    [x \in DOMAIN lengths \cup Range(scaffold_contigs) |->
        IF x \in Range(scaffold_contigs) THEN len ELSE lengths[x]]

\* The locals of a traversal loop.
InitSt(start) ==
    [ contig_id |-> start, name |-> <<>>, slen |-> 0, sc |-> <<>>, spos |-> 0,
      first |-> TRUE, names |-> EmptyMap, lengths |-> EmptyMap,
      offsets |-> EmptyMap, groups |-> <<>>, target |-> 0,
      found |-> FALSE, done |-> FALSE ]

Break(st) == [st EXCEPT !.done = TRUE]

----------------------------------------------------------------------------
(* The loop bodies of the scanners: one call is one read_line and its match *)

\* A variant of get_sequence_name whose loop does not end at the end of input.
SeqNameStepNoEnd(st, c) ==
    CASE c.t = "S" -> [st EXCEPT !.name = c.s]
      [] c.t = "C" ->
           IF st.contig_id = st.target
           THEN [st EXCEPT !.found = TRUE, !.done = TRUE]
           ELSE [st EXCEPT !.contig_id = @ + 1]
      [] c.t \in {"g", "A", "a"} -> IF ~st.first THEN Break(st) ELSE st
      [] OTHER -> st

\* get_sequence_name: the S arm stores the name as read.
SeqNameStep(st, c) ==
    IF c.t = EndTag THEN Break(st)
    ELSE CASE c.t = "S" -> [st EXCEPT !.name = c.s]
           [] c.t = "C" ->
                IF st.contig_id = st.target
                THEN [st EXCEPT !.found = TRUE, !.done = TRUE]
                ELSE [st EXCEPT !.contig_id = @ + 1]
           [] c.t \in {"g", "A", "a"} -> IF ~st.first THEN Break(st) ELSE st
           [] OTHER -> st

PushGroup(st) ==
    Append(st.groups, [names |-> st.names, lengths |-> st.lengths, offsets |-> st.offsets])

\* A variant of get_all_groups_metadata in which a gap advances the position
\* but is not added to the scaffold length.
GroupsMetaStepGapNoLength(st, c) ==
    LET committed == CommitScaffold(st.lengths, st.sc, st.slen)
        flushed == [st EXCEPT !.lengths = committed]
        final == IF st.names # EmptyMap
                 THEN [flushed EXCEPT !.groups = PushGroup(flushed)]
                 ELSE flushed
    IN
    IF c.t = EndTag THEN Break(final)
    ELSE CASE c.t = "g" ->
                IF ~st.first
                THEN [flushed EXCEPT !.groups = PushGroup(flushed),
                                     !.names = EmptyMap, !.lengths = EmptyMap,
                                     !.offsets = EmptyMap, !.sc = <<>>,
                                     !.slen = 0, !.spos = 0, !.contig_id = 0]
                ELSE st
           [] c.t = "S" ->
                [flushed EXCEPT !.name = trim_sequence_name(c.s), !.sc = <<>>,
                                !.slen = 0, !.spos = 0]
           [] c.t = "G" -> [st EXCEPT !.spos = @ + c.i]
           [] c.t = "C" ->
                [st EXCEPT !.names = Insert(@, st.contig_id, st.name),
                           !.offsets = Insert(@, st.contig_id, <<st.spos, c.i>>),
                           !.slen = @ + c.i,
                           !.sc = Append(@, st.contig_id),
                           !.spos = @ + c.i,
                           !.contig_id = @ + 1]
           [] c.t \in {"A", "a"} -> IF ~st.first THEN Break(final) ELSE st
           [] OTHER -> st

\* get_all_groups_metadata
GroupsMetaStep(st, c) ==
    LET committed == CommitScaffold(st.lengths, st.sc, st.slen)
        flushed == [st EXCEPT !.lengths = committed]
        final == IF st.names # EmptyMap
                 THEN [flushed EXCEPT !.groups = PushGroup(flushed)]
                 ELSE flushed
    IN
    IF c.t = EndTag THEN Break(final)
    ELSE CASE c.t = "g" ->
                IF ~st.first
                THEN [flushed EXCEPT !.groups = PushGroup(flushed),
                                     !.names = EmptyMap, !.lengths = EmptyMap,
                                     !.offsets = EmptyMap, !.sc = <<>>,
                                     !.slen = 0, !.spos = 0, !.contig_id = 0]
                ELSE st
           [] c.t = "S" ->
                [flushed EXCEPT !.name = trim_sequence_name(c.s), !.sc = <<>>,
                                !.slen = 0, !.spos = 0]
           [] c.t = "G" -> [st EXCEPT !.slen = @ + c.i, !.spos = @ + c.i]
           [] c.t = "C" ->
                [st EXCEPT !.names = Insert(@, st.contig_id, st.name),
                           !.offsets = Insert(@, st.contig_id, <<st.spos, c.i>>),
                           !.slen = @ + c.i,
                           !.sc = Append(@, st.contig_id),
                           !.spos = @ + c.i,
                           !.contig_id = @ + 1]
           [] c.t \in {"A", "a"} -> IF ~st.first THEN Break(final) ELSE st
           [] OTHER -> st

\* get_group_sequence_names
GroupNamesStep(st, c) ==
    IF c.t = EndTag THEN Break(st)
    ELSE CASE c.t = "S" -> [st EXCEPT !.name = trim_sequence_name(c.s)]
           [] c.t = "C" ->
                [st EXCEPT !.names = Insert(@, st.contig_id, st.name),
                           !.contig_id = @ + 1]
           [] c.t \in {"g", "A", "a"} -> IF ~st.first THEN Break(st) ELSE st
           [] OTHER -> st

\* A variant of the names scan that restarts the contig counter at each group.
AllNamesStepPerGroup(st, c) ==
    IF c.t = EndTag THEN Break(st)
    ELSE CASE c.t = "S" -> [st EXCEPT !.name = trim_sequence_name(c.s)]
           [] c.t = "C" ->
                [st EXCEPT !.names = Insert(@, st.contig_id, st.name),
                           !.contig_id = @ + 1]
           [] c.t = "g" -> IF ~st.first THEN [st EXCEPT !.contig_id = 0] ELSE st
           [] c.t \in {"A", "a"} -> IF ~st.first THEN Break(st) ELSE st
           [] OTHER -> st

\* get_all_sequence_names: a later 'g' line continues the scan; the counter
\* contig_id is left as it is.
AllNamesStep(st, c) ==
    IF c.t = EndTag THEN Break(st)
    ELSE CASE c.t = "S" -> [st EXCEPT !.name = trim_sequence_name(c.s)]
           [] c.t = "C" ->
                [st EXCEPT !.names = Insert(@, st.contig_id, st.name),
                           !.contig_id = @ + 1]
           [] c.t = "g" -> st
           [] c.t \in {"A", "a"} -> IF ~st.first THEN Break(st) ELSE st
           [] OTHER -> st

\* get_group_sequence_lengths
GroupLengthsStep(st, c) ==
    LET flushed == [st EXCEPT !.lengths = CommitScaffold(st.lengths, st.sc, st.slen)]
    IN
    IF c.t = EndTag THEN Break(flushed)
    ELSE CASE c.t = "S" -> [flushed EXCEPT !.sc = <<>>, !.slen = 0]
           [] c.t = "G" -> [st EXCEPT !.slen = @ + c.i]
           [] c.t = "C" ->
                [st EXCEPT !.slen = @ + c.i, !.sc = Append(@, st.contig_id),
                           !.contig_id = @ + 1]
           [] c.t \in {"g", "A", "a"} -> IF ~st.first THEN Break(flushed) ELSE st
           [] OTHER -> st

\* A variant of the lengths scan that commits a scaffold at an S line only.
AllLengthsStepCommitAtS(st, c) ==
    LET flushed == [st EXCEPT !.lengths = CommitScaffold(st.lengths, st.sc, st.slen)]
    IN
    IF c.t = EndTag THEN Break(st)
    ELSE CASE c.t = "S" -> [flushed EXCEPT !.sc = <<>>, !.slen = 0]
           [] c.t = "G" -> [st EXCEPT !.slen = @ + c.i]
           [] c.t = "C" ->
                [st EXCEPT !.slen = @ + c.i, !.sc = Append(@, st.contig_id),
                           !.contig_id = @ + 1]
           [] c.t = "g" -> st
           [] c.t \in {"A", "a"} -> IF ~st.first THEN Break(st) ELSE st
           [] OTHER -> st

\* get_all_sequence_lengths
AllLengthsStep(st, c) ==
    LET flushed == [st EXCEPT !.lengths = CommitScaffold(st.lengths, st.sc, st.slen)]
    IN
    IF c.t = EndTag THEN Break(flushed)
    ELSE CASE c.t = "S" -> [flushed EXCEPT !.sc = <<>>, !.slen = 0]
           [] c.t = "G" -> [st EXCEPT !.slen = @ + c.i]
           [] c.t = "C" ->
                [st EXCEPT !.slen = @ + c.i, !.sc = Append(@, st.contig_id),
                           !.contig_id = @ + 1]
           [] c.t = "g" ->
                IF ~st.first THEN [flushed EXCEPT !.sc = <<>>, !.slen = 0] ELSE st
           [] c.t \in {"A", "a"} -> IF ~st.first THEN Break(flushed) ELSE st
           [] OTHER -> st

\* get_group_contig_offsets
GroupOffsetsStep(st, c) ==
    IF c.t = EndTag THEN Break(st)
    ELSE CASE c.t = "S" -> [st EXCEPT !.spos = 0]
           [] c.t = "G" -> [st EXCEPT !.spos = @ + c.i]
           [] c.t = "C" ->
                [st EXCEPT !.offsets = Insert(@, st.contig_id, <<st.spos, c.i>>),
                           !.contig_id = @ + 1, !.spos = @ + c.i]
           [] c.t \in {"g", "A", "a"} -> IF ~st.first THEN Break(st) ELSE st
           [] OTHER -> st

\* A variant of the offsets scan in which a gap does not occupy space.
AllOffsetsStepSkipGaps(st, c) ==
    IF c.t = EndTag THEN Break(st)
    ELSE CASE c.t = "S" -> [st EXCEPT !.spos = 0]
           [] c.t = "C" ->
                [st EXCEPT !.offsets = Insert(@, st.contig_id, <<st.spos, c.i>>),
                           !.contig_id = @ + 1, !.spos = @ + c.i]
           [] c.t = "g" -> IF ~st.first THEN [st EXCEPT !.spos = 0] ELSE st
           [] c.t = "A" -> IF ~st.first THEN Break(st) ELSE st
           [] OTHER -> st

\* get_all_contig_offsets: only 'A' stops the scan.
AllOffsetsStep(st, c) ==
    IF c.t = EndTag THEN Break(st)
    ELSE CASE c.t = "S" -> [st EXCEPT !.spos = 0]
           [] c.t = "G" -> [st EXCEPT !.spos = @ + c.i]
           [] c.t = "C" ->
                [st EXCEPT !.offsets = Insert(@, st.contig_id, <<st.spos, c.i>>),
                           !.contig_id = @ + 1, !.spos = @ + c.i]
           [] c.t = "g" -> IF ~st.first THEN [st EXCEPT !.spos = 0] ELSE st
           [] c.t = "A" -> IF ~st.first THEN Break(st) ELSE st
           [] OTHER -> st

Step(kind, st, c) ==
    CASE kind = "get_sequence_name" -> SeqNameStep(st, c)
      [] kind = "get_all_groups_metadata" -> GroupsMetaStep(st, c)
      [] kind = "get_group_sequence_names" -> GroupNamesStep(st, c)
      [] kind = "get_all_sequence_names" -> AllNamesStep(st, c)
      [] kind = "get_group_sequence_lengths" -> GroupLengthsStep(st, c)
      [] kind = "get_all_sequence_lengths" -> AllLengthsStep(st, c)
      [] kind = "get_group_contig_offsets" -> GroupOffsetsStep(st, c)
      [] kind = "get_all_contig_offsets" -> AllOffsetsStep(st, c)

\* loop { read_line; match ...; is_first_line = false }
RECURSIVE Loop(_, _, _)
Loop(kind, h, st) ==
    LET h2 == oneReadLine(h)
        st2 == Step(kind, st, h2.cur)
    IN  IF st2.done THEN [h |-> h2, st |-> st2]
        ELSE Loop(kind, h2, [st2 EXCEPT !.first = FALSE])

\* The inner loop of the single-group pre-pass.
RECURSIVE CountContigs(_, _)
CountContigs(h, n) ==
    LET h2 == oneReadLine(h)
    IN  IF h2.cur.t \in {EndTag, "g", "A", "a"} THEN [h |-> h2, n |-> n]
        ELSE CountContigs(h2, IF h2.cur.t = "C" THEN n + 1 ELSE n)

\* for prev_group in 1..group_num { if oneGoto('g', prev_group) { ... } }
RECURSIVE PrePass(_, _, _, _)
PrePass(h, prev_group, group_num, n) ==
    IF prev_group >= group_num THEN [h |-> h, n |-> n]
    ELSE LET g == oneGoto(h, "g", prev_group)
         IN  IF g.ok
             THEN LET r == CountContigs(g.h, n)
                  IN  PrePass(r.h, prev_group + 1, group_num, r.n)
             ELSE PrePass(h, prev_group + 1, group_num, n)

\* let _ = ffi::oneGoto(self.ptr, (*self.ptr).lineType, saved_line)
Restore(h, saved_line) == oneGoto(h, h.cur.t, saved_line).h

----------------------------------------------------------------------------
(* The scanners: each yields the handle it leaves and the value it returns *)

\* A variant of the all-groups scan that reads on from the cursor.
ScanAllFromCursor(kind, h, target) ==
    LET saved_line == h.line
        r == Loop(kind, h, [InitSt(0) EXCEPT !.target = target])
    IN  [h |-> Restore(r.h, saved_line), st |-> r.st]

\* An all-groups scan: goto the first 'g', loop, restore.
ScanAll(kind, h, target) ==
    LET saved_line == h.line
        g == oneGoto(h, "g", 1)
    IN  IF ~g.ok THEN [h |-> h, st |-> InitSt(0)]
        ELSE LET r == Loop(kind, g.h, [InitSt(0) EXCEPT !.target = target])
             IN  [h |-> Restore(r.h, saved_line), st |-> r.st]

\* A single-group scan: pre-pass, goto the target group, loop, restore.
ScanGroup(kind, h, group_num) ==
    LET saved_line == h.line
        p == PrePass(h, 1, group_num, 0)
        g == oneGoto(p.h, "g", group_num)
    IN  IF ~g.ok THEN [h |-> p.h, st |-> InitSt(p.n)]
        ELSE LET r == Loop(kind, g.h, InitSt(p.n))
             IN  [h |-> Restore(r.h, saved_line), st |-> r.st]

None == <<"None">>

Some(v) == <<"Some", v>>

get_sequence_name(h, seq_id) ==
    LET r == ScanAll("get_sequence_name", h, seq_id)
    IN  [h |-> r.h, val |-> IF r.st.found THEN Some(r.st.name) ELSE None]

get_all_groups_metadata(h) ==
    LET r == ScanAll("get_all_groups_metadata", h, 0)
    IN  [h |-> r.h, val |-> r.st.groups]

get_group_sequence_names(h, group_num) ==
    LET r == ScanGroup("get_group_sequence_names", h, group_num)
    IN  [h |-> r.h, val |-> r.st.names]

get_all_sequence_names(h) ==
    LET r == ScanAll("get_all_sequence_names", h, 0)
    IN  [h |-> r.h, val |-> r.st.names]

get_group_sequence_lengths(h, group_num) ==
    LET r == ScanGroup("get_group_sequence_lengths", h, group_num)
    IN  [h |-> r.h, val |-> r.st.lengths]

get_group_contig_offsets(h, group_num) ==
    LET r == ScanGroup("get_group_contig_offsets", h, group_num)
    IN  [h |-> r.h, val |-> r.st.offsets]

get_all_sequence_lengths(h) ==
    LET r == ScanAll("get_all_sequence_lengths", h, 0)
    IN  [h |-> r.h, val |-> r.st.lengths]

get_all_contig_offsets(h) ==
    LET r == ScanAll("get_all_contig_offsets", h, 0)
    IN  [h |-> r.h, val |-> r.st.offsets]

----------------------------------------------------------------------------
(* read_gdb_metadata: the flat pass over a standalone file *)

\* file.read_line() on the handle read_gdb_metadata opened over the lines.
GdbReadLine(lines, h) ==
    IF h.pos < Len(lines)
    THEN [pos |-> h.pos + 1, cur |-> lines[h.pos + 1], line |-> h.line + 1]
    ELSE [h EXCEPT !.cur = [h.cur EXCEPT !.t = EndTag]]

\* A variant of the flat pass in which an S line does not reset the position.
GdbMetaStepKeepPos(st, c) ==
    LET flushed == [st EXCEPT !.lengths = CommitScaffold(st.lengths, st.sc, st.slen)]
    IN
    IF c.t = EndTag THEN Break(flushed)
    ELSE CASE c.t = "S" ->
                [flushed EXCEPT !.sc = <<>>, !.slen = 0,
                                !.name = trim_sequence_name(c.s)]
           [] c.t = "G" -> [st EXCEPT !.spos = @ + c.i, !.slen = @ + c.i]
           [] c.t = "C" ->
                [st EXCEPT !.names = Insert(@, st.contig_id, st.name),
                           !.offsets = Insert(@, st.contig_id, <<st.spos, c.i>>),
                           !.sc = Append(@, st.contig_id),
                           !.contig_id = @ + 1,
                           !.spos = @ + c.i,
                           !.slen = @ + c.i]
           [] OTHER -> st

\* The loop body of read_gdb_metadata: S, G and C arms, everything else skipped.
GdbMetaStep(st, c) ==
    LET flushed == [st EXCEPT !.lengths = CommitScaffold(st.lengths, st.sc, st.slen)]
    IN
    IF c.t = EndTag THEN Break(flushed)
    ELSE CASE c.t = "S" ->
                [flushed EXCEPT !.sc = <<>>, !.spos = 0, !.slen = 0,
                                !.name = trim_sequence_name(c.s)]
           [] c.t = "G" -> [st EXCEPT !.spos = @ + c.i, !.slen = @ + c.i]
           [] c.t = "C" ->
                [st EXCEPT !.names = Insert(@, st.contig_id, st.name),
                           !.offsets = Insert(@, st.contig_id, <<st.spos, c.i>>),
                           !.sc = Append(@, st.contig_id),
                           !.contig_id = @ + 1,
                           !.spos = @ + c.i,
                           !.slen = @ + c.i]
           [] OTHER -> st

\* loop { let line_type = file.read_line(); ... }
RECURSIVE GdbLoop(_, _, _)
GdbLoop(lines, h, st) ==
    LET h2 == GdbReadLine(lines, h)
        st2 == GdbMetaStep(st, h2.cur)
    IN  IF st2.done THEN st2 ELSE GdbLoop(lines, h2, st2)

\* The maps read_gdb_metadata returns for a standalone file of these lines
\* that open_read has opened: Ok((seq_names, seq_lengths, contig_offsets)).
read_gdb_metadataMaps(lines) ==
    LET st == GdbLoop(lines, [pos |-> 0, cur |-> NoLine, line |-> 0], InitSt(0))
    IN  <<st.names, st.lengths, st.offsets>>

----------------------------------------------------------------------------
(* Concurrent opens: the open entry points called by several threads *)

OpenEntries == {"open_read", "read_gdb_metadata", "open_write_new", "open_write_from"}

\* The entry points that open a file for reading.
ReadEntries == {"open_read", "read_gdb_metadata"}

\* file_type: None, or the primary type the file must declare.
NoType == "None"

ExpectedTypes == {NoType, "seq", "gdb"}

Threads == 1..NThreads

\* Texts are sequences of tokens; a path is one token.
Tok(w) == <<w, 0>>

GoodFile == Tok("ONEcode/TEST/small.seq")

NonexistentFile(t) == <<"nonexistent_file", t>>

GdbFile == Tok("genome.1gdb")

Exists(path) == path \in {GoodFile, GdbFile}

\* The primary type an existing file declares in its header.
FileType(path) == IF path = GdbFile THEN "gdb" ELSE "seq"

\* The native check of the declared type against the expected one.
TypeMatches(path, file_type) == file_type = NoType \/ file_type = FileType(path)

Blank == {Tok(" ")}

NullPtr == <<Tok("NULL")>>

FilePtr == <<Tok("OneFile")>>

\* What the native library may leave in the error buffer when an open fails.
NativeErrors(path) ==
    { <<>>, <<Tok(" ")>>, <<Tok("failed to open"), path>> }

\* err_msg.trim().is_empty()
IsBlank(text) == \A k \in DOMAIN text : text[k] \in Blank

\* A variant of the error buffer that is one buffer for the whole process.
WriteErrorShared(es, t, text) == [u \in DOMAIN es |-> text]

\* The native error buffer is thread-local: a write by thread t changes the
\* buffer of t alone.
WriteError(es, t, text) == [es EXCEPT ![t] = text]

\* oneErrorString() as read by thread t
oneErrorString(t) == errorString[t]

\* A variant of the message that carries the native text alone.
OpenFailedMsgTextOnly(path, err_str) ==
    IF err_str = NullPtr THEN <<Tok("Unknown error")>> ELSE err_str

\* The message of OpenFailed, from the path and the native error text.
OpenFailedMsg(path, err_str) ==
    LET err_msg == IF err_str = NullPtr THEN <<Tok("Unknown error")>> ELSE err_str
    IN  IF IsBlank(err_msg) THEN <<path>>
        ELSE <<path, Tok(":")>> \o err_msg

NoResult == <<"none", <<>>>>

Ok(v) == <<"Ok", v>>

OpenFailed(msg) == <<"OpenFailed", msg>>

OpenIdle ==
    /\ oentry = [t \in Threads |-> "open_read"]
    /\ opc = [t \in Threads |-> "idle"]
    /\ opath = [t \in Threads |-> GoodFile]
    /\ otype = [t \in Threads |-> NoType]
    /\ optr = [t \in Threads |-> NullPtr]
    /\ oresult = [t \in Threads |-> NoResult]
    /\ raced = [t \in Threads |-> FALSE]
    /\ errorString = [t \in Threads |-> <<>>]
    /\ isBootStrap = FALSE

OpenInit ==
    /\ oentry \in [Threads -> OpenEntries]
    /\ opc = [t \in Threads |-> "start"]
    /\ opath \in [Threads -> {GoodFile, GdbFile} \cup { NonexistentFile(t) : t \in Threads }]
    /\ \A t \in Threads : opath[t] \in {GoodFile, GdbFile, NonexistentFile(t)}
    /\ otype \in [Threads -> ExpectedTypes]
    /\ \A t \in Threads :
          otype[t] = CASE oentry[t] = "read_gdb_metadata" -> "gdb"
                       [] oentry[t] = "open_read" -> otype[t]
                       [] OTHER -> NoType
    /\ optr = [t \in Threads |-> NullPtr]
    /\ oresult = [t \in Threads |-> NoResult]
    /\ raced = [t \in Threads |-> FALSE]
    /\ errorString = [t \in Threads |-> <<>>]
    /\ isBootStrap = FALSE

\* The native open of a path that cannot be opened: the error text is written
\* and NULL comes back.
NativeOpenFail(t) ==
    /\ opc[t] = "start"
    /\ ~Exists(opath[t])
    /\ \E text \in NativeErrors(opath[t]) :
          errorString' = WriteError(errorString, t, text)
    /\ optr' = [optr EXCEPT ![t] = NullPtr]
    /\ opc' = [opc EXCEPT ![t] = "returned"]
    /\ UNCHANGED <<oentry, opath, otype, oresult, raced, isBootStrap>>
    /\ UNCHANGED <<scanVars, schemaVars, fieldVars, closeVars, writeVars, accessVars>>

\* The native open for writing of a path that can be opened.
NativeOpenWrite(t) ==
    /\ opc[t] = "start"
    /\ oentry[t] \notin ReadEntries
    /\ Exists(opath[t])
    /\ optr' = [optr EXCEPT ![t] = FilePtr]
    /\ opc' = [opc EXCEPT ![t] = "returned"]
    /\ UNCHANGED <<oentry, opath, otype, oresult, raced, errorString, isBootStrap>>
    /\ UNCHANGED <<scanVars, schemaVars, fieldVars, closeVars, writeVars, accessVars>>

\* The native open of an existing file starts parsing its header and schema,
\* which raises the bootstrap flag, with no lock taken by open_read.
NativeOpenBegin(t) ==
    /\ opc[t] = "start"
    /\ oentry[t] \in ReadEntries
    /\ Exists(opath[t])
    /\ isBootStrap' = TRUE
    /\ raced' = [u \in Threads |->
                    IF u = t THEN \E v \in Threads \ {t} : opc[v] = "parsing"
                    ELSE raced[u] \/ opc[u] = "parsing"]
    /\ opc' = [opc EXCEPT ![t] = "parsing"]
    /\ UNCHANGED <<oentry, opath, otype, optr, oresult, errorString>>
    /\ UNCHANGED <<scanVars, schemaVars, fieldVars, closeVars, writeVars, accessVars>>

\* The parse ends and lowers the flag. A parse that ran beside another one has
\* raced on the flag: it may have read the file as the bootstrap schema, and
\* then it fails. So does the parse of a file whose declared type is not the
\* expected one.
NativeOpenEnd(t) ==
    /\ opc[t] = "parsing"
    /\ isBootStrap' = FALSE
    /\ \/ /\ TypeMatches(opath[t], otype[t])
          /\ optr' = [optr EXCEPT ![t] = FilePtr]
          /\ UNCHANGED errorString
       \/ /\ raced[t] \/ ~TypeMatches(opath[t], otype[t])
          /\ optr' = [optr EXCEPT ![t] = NullPtr]
          /\ \E text \in NativeErrors(opath[t]) :
                errorString' = WriteError(errorString, t, text)
    /\ opc' = [opc EXCEPT ![t] = "returned"]
    /\ UNCHANGED <<oentry, opath, otype, oresult, raced>>
    /\ UNCHANGED <<scanVars, schemaVars, fieldVars, closeVars, writeVars, accessVars>>

\* A null pointer makes the entry point read the error text and return
\* OpenFailed, any other pointer is wrapped in a handle.
open_read(path, ptr, err_str) ==
    IF ptr = NullPtr THEN OpenFailed(OpenFailedMsg(path, err_str)) ELSE Ok(path)

\* A variant of read_gdb_metadata that returns empty maps when the open fails.
read_gdb_metadataUnchecked(opened) == Ok(<<Tok("metadata")>>)

\* read_gdb_metadata: Self::open_read(path, None, Some("gdb"), 1)?, then the
\* maps read off the file.
read_gdb_metadata(opened) ==
    IF opened[1] # "Ok" THEN opened ELSE Ok(<<Tok("metadata")>>)

\* Back in the entry point, which returns to its caller.
OpenReturn(t) ==
    /\ opc[t] = "returned"
    /\ oresult' = [oresult EXCEPT ![t] =
          LET opened == open_read(opath[t], optr[t], oneErrorString(t))
          IN  IF oentry[t] = "read_gdb_metadata" THEN read_gdb_metadata(opened)
              ELSE opened]
    /\ opc' = [opc EXCEPT ![t] = "done"]
    /\ UNCHANGED <<oentry, opath, otype, optr, raced, errorString, isBootStrap>>
    /\ UNCHANGED <<scanVars, schemaVars, fieldVars, closeVars, writeVars, accessVars>>

OpenNext ==
    \E t \in Threads :
        \/ NativeOpenFail(t)
        \/ NativeOpenWrite(t)
        \/ NativeOpenBegin(t)
        \/ NativeOpenEnd(t)
        \/ OpenReturn(t)

----------------------------------------------------------------------------
(* Concurrent schema construction: OneSchema::from_text *)

SchemaTexts(t) ==
    { [kind |-> "valid", id |-> t],     \* a well-formed schema text
      [kind |-> "malformed", id |-> t], \* a text the native parser rejects
      [kind |-> "nul", id |-> t] }      \* a text with an interior NUL

NoFile == [kind |-> "none", id |-> 0]

SchemaPtr(text) == <<Tok("OneSchema"), <<text.kind, text.id>>>>

SchemaError == <<"SchemaError", <<>>>>

InvalidCString == <<"InvalidCString", <<>>>>

SchemaIdle ==
    /\ spc = [t \in Threads |-> "idle"]
    /\ stext = [t \in Threads |-> NoFile]
    /\ sptr = [t \in Threads |-> NullPtr]
    /\ sresult = [t \in Threads |-> NoResult]
    /\ schemaLock = 0
    /\ tmpFile = NoFile

SchemaInit ==
    /\ spc = [t \in Threads |-> "start"]
    /\ stext \in [Threads -> UNION { SchemaTexts(t) : t \in Threads }]
    /\ \A t \in Threads : stext[t] \in SchemaTexts(t)
    /\ sptr = [t \in Threads |-> NullPtr]
    /\ sresult = [t \in Threads |-> NoResult]
    /\ schemaLock = 0
    /\ tmpFile = NoFile

\* A variant of the lock that lets every thread through.
LockFreeAlways == TRUE

\* SCHEMA_FROM_TEXT_LOCK.lock() returns once no thread holds the lock.
LockFree == schemaLock = 0

\* CString::new(text)? rejects a text with an interior NUL before the lock.
FromTextBadCString(t) ==
    /\ spc[t] = "start"
    /\ stext[t].kind = "nul"
    /\ sresult' = [sresult EXCEPT ![t] = InvalidCString]
    /\ spc' = [spc EXCEPT ![t] = "done"]
    /\ UNCHANGED <<stext, sptr, schemaLock, tmpFile>>
    /\ UNCHANGED <<scanVars, openVars, fieldVars, closeVars, writeVars, accessVars>>

\* let _guard = SCHEMA_FROM_TEXT_LOCK.lock().unwrap()
FromTextLock(t) ==
    /\ spc[t] = "start"
    /\ stext[t].kind # "nul"
    /\ LockFree
    /\ schemaLock' = t
    /\ spc' = [spc EXCEPT ![t] = "locked"]
    /\ UNCHANGED <<stext, sptr, sresult, tmpFile>>
    /\ UNCHANGED <<scanVars, openVars, fieldVars, closeVars, writeVars, accessVars>>

\* The native call first writes the text to the temporary file of the process.
NativeWriteTemp(t) ==
    /\ spc[t] = "locked"
    /\ tmpFile' = stext[t]
    /\ spc' = [spc EXCEPT ![t] = "written"]
    /\ UNCHANGED <<stext, sptr, sresult, schemaLock>>
    /\ UNCHANGED <<scanVars, openVars, fieldVars, closeVars, writeVars, accessVars>>

\* It then parses the temporary file, whatever it holds by now, and removes it.
NativeParseTemp(t) ==
    /\ spc[t] = "written"
    /\ sptr' = [sptr EXCEPT ![t] =
          IF tmpFile.kind = "valid" THEN SchemaPtr(tmpFile) ELSE NullPtr]
    /\ tmpFile' = NoFile
    /\ spc' = [spc EXCEPT ![t] = "parsed"]
    /\ UNCHANGED <<stext, sresult, schemaLock>>
    /\ UNCHANGED <<scanVars, openVars, fieldVars, closeVars, writeVars, accessVars>>

\* A variant of the return in which the error path keeps the lock.
FromTextReturnKeepLockOnError(t) ==
    /\ spc[t] = "parsed"
    /\ sresult' = [sresult EXCEPT ![t] =
          IF sptr[t] = NullPtr THEN SchemaError ELSE Ok(sptr[t])]
    /\ schemaLock' = IF schemaLock = t /\ sptr[t] # NullPtr THEN 0 ELSE schemaLock
    /\ spc' = [spc EXCEPT ![t] = "done"]
    /\ UNCHANGED <<stext, sptr, tmpFile>>
    /\ UNCHANGED <<scanVars, openVars, fieldVars, closeVars, writeVars, accessVars>>

\* from_text returns, and the guard going out of scope releases the lock.
FromTextReturn(t) ==
    /\ spc[t] = "parsed"
    /\ sresult' = [sresult EXCEPT ![t] =
          IF sptr[t] = NullPtr THEN SchemaError ELSE Ok(sptr[t])]
    /\ schemaLock' = IF schemaLock = t THEN 0 ELSE schemaLock
    /\ spc' = [spc EXCEPT ![t] = "done"]
    /\ UNCHANGED <<stext, sptr, tmpFile>>
    /\ UNCHANGED <<scanVars, openVars, fieldVars, closeVars, writeVars, accessVars>>

SchemaNext ==
    \E t \in Threads :
        \/ FromTextBadCString(t)
        \/ FromTextLock(t)
        \/ NativeWriteTemp(t)
        \/ NativeParseTemp(t)
        \/ FromTextReturn(t)

----------------------------------------------------------------------------
(* The byte-offset calls and the list accessors: state of the handle they read *)

NoIndex == [has |-> FALSE, size |-> 0, count |-> 0, at |-> <<>>]

NoAccess == [op |-> "none", arg |-> 0, val |-> <<>>]

\* A 64-bit word as its bits, bit 0 the lowest. Word(hi, n) has hi in its top
\* byte and the small number n in its low 56 bits.
Bits == 0..63

MaskBits == 56

Word(hi, n) ==
    [ b \in Bits |->
        IF b >= MaskBits THEN (hi \div 2^(b - MaskBits)) % 2
        ELSE IF b < 16 THEN (n \div 2^b) % 2
        ELSE 0 ]

NoList == [info |-> FALSE, len |-> Word(0, 0), list |-> FALSE, compressed |-> FALSE]

AccessIdle ==
    /\ aindex = NoIndex
    /\ ires = NoAccess
    /\ lline = NoList
    /\ lres = NoAccess

----------------------------------------------------------------------------
(* The field accessors and mutators: int, real, char, set_int, set_real, set_char *)

FieldVals == 0..MaxVal

FieldNos == 0..MaxFields

FieldIdle ==
    /\ nField = 1
    /\ field = [f \in 0..0 |-> 0]
    /\ outside = 0
    /\ got = 0
    /\ oob = FALSE

FieldInit ==
    /\ nField \in 1..MaxFields
    /\ field = [f \in 0..(nField - 1) |-> 0]
    /\ outside = 0
    /\ got = 0
    /\ oob = FALSE

\* (*fields.add(field)): the slot lies in the array only for field < nField;
\* the accessors compute the address without looking at nField.
InArray(f) == f < nField

\* (*fields.add(field)).i, .r, .c: a read of the slot, or of whatever follows
\* the array.
ReadField(f) ==
    /\ IF InArray(f)
       THEN got' = field[f] /\ oob' = oob
       ELSE got' \in FieldVals /\ oob' = TRUE
    /\ UNCHANGED <<nField, field, outside>>
    /\ UNCHANGED <<scanVars, openVars, schemaVars, closeVars, writeVars, accessVars>>

\* (*fields.add(field)).i = value: a write of the slot, or over whatever
\* follows the array.
WriteField(f, value) ==
    /\ IF InArray(f)
       THEN field' = [field EXCEPT ![f] = value] /\ UNCHANGED <<outside, oob>>
       ELSE outside' = value /\ oob' = TRUE /\ UNCHANGED field
    /\ UNCHANGED <<nField, got>>
    /\ UNCHANGED <<scanVars, openVars, schemaVars, closeVars, writeVars, accessVars>>

int == \E f \in FieldNos : ReadField(f)

real == \E f \in FieldNos : ReadField(f)

char == \E f \in FieldNos : ReadField(f)

set_int == \E f \in FieldNos, value \in FieldVals : WriteField(f, value)

set_real == \E f \in FieldNos, value \in FieldVals : WriteField(f, value)

set_char == \E f \in FieldNos, value \in FieldVals : WriteField(f, value)

FieldNext ==
    \/ int
    \/ real
    \/ char
    \/ set_int
    \/ set_real
    \/ set_char

----------------------------------------------------------------------------
(* close() and Drop *)

HandleIds == 1..NHandles

NoHandle == [stage |-> "unopened", ptr |-> NullPtr, is_owned |-> FALSE, closes |-> 0]

CloseIdle == handles = [h \in HandleIds |-> NoHandle]

CloseInit == handles = [h \in HandleIds |-> NoHandle]

\* ffi::oneFileClose(self.ptr)
oneFileClose(o) == [o EXCEPT !.closes = @ + 1]

\* A variant of close() that leaves the pointer in place.
CloseBodyKeepPtr(o) ==
    IF o.is_owned /\ o.ptr # NullPtr THEN oneFileClose(o) ELSE o

\* The body of close(mut self): the native close, then self.ptr = null.
CloseBody(o) ==
    IF o.is_owned /\ o.ptr # NullPtr
    THEN [oneFileClose(o) EXCEPT !.ptr = NullPtr]
    ELSE o

\* Drop::drop(&mut self)
DropBody(o) ==
    IF o.is_owned /\ o.ptr # NullPtr THEN oneFileClose(o) ELSE o

\* An open entry point returns Ok(OneFile { ptr, is_owned: true }).
OpenOk(h) ==
    /\ handles[h].stage = "unopened"
    /\ handles' = [handles EXCEPT ![h] =
          [stage |-> "live", ptr |-> FilePtr, is_owned |-> TRUE, closes |-> 0]]
    /\ UNCHANGED <<scanVars, openVars, schemaVars, fieldVars, writeVars, accessVars>>

\* An open entry point returns OpenFailed: no handle comes to exist.
OpenErr(h) ==
    /\ handles[h].stage = "unopened"
    /\ handles' = [handles EXCEPT ![h] = [NoHandle EXCEPT !.stage = "failed"]]
    /\ UNCHANGED <<scanVars, openVars, schemaVars, fieldVars, writeVars, accessVars>>

\* file.close(): the body runs, then self goes out of scope and is dropped.
Close(h) ==
    /\ handles[h].stage = "live"
    /\ handles' = [handles EXCEPT ![h] =
          [DropBody(CloseBody(handles[h])) EXCEPT !.stage = "closed"]]
    /\ UNCHANGED <<scanVars, openVars, schemaVars, fieldVars, writeVars, accessVars>>

\* The handle goes out of scope without close().
Drop(h) ==
    /\ handles[h].stage = "live"
    /\ handles' = [handles EXCEPT ![h] =
          [DropBody(handles[h]) EXCEPT !.stage = "dropped"]]
    /\ UNCHANGED <<scanVars, openVars, schemaVars, fieldVars, writeVars, accessVars>>

CloseNext ==
    \E h \in HandleIds :
        \/ OpenOk(h)
        \/ OpenErr(h)
        \/ Close(h)
        \/ Drop(h)

----------------------------------------------------------------------------
(* A write handle: header metadata, staged fields and written lines; and the *)
(* read handle opened on the file once the writer is closed                 *)

\* The schemas of the tests: T holds an INT, a REAL and a CHAR field; L an
\* INT_LIST, R a REAL_LIST and S a STRING.
\* OneError::Other(msg)
Other(msg) == <<"Other", msg>>

WriteTypes == {"T", "L", "R", "S"}

IntVals == {42}

RealVals == {3}

\* Rust chars by code point: 'X' and U+0158.
CharVals == {88, 344}

\* Strings by their bytes: "a" and "a\0b".
StringVals == {<<97>>, <<97, 0, 98>>}

NumberLists == {<<>>, <<10, 20>>}

Payloads(t) ==
    CASE t = "T" -> {<<>>}
      [] t = "S" -> StringVals
      [] OTHER -> NumberLists

\* Arguments of the header calls: a C string, or one with an interior NUL byte.
HeaderArgs == {"plain", "nul"}

RefCounts == {1, 2}

\* value as i8: the low eight bits, read as a signed byte
AsI8(value) == (((value % 256) + 128) % 256) - 128

\* c as u8 as char
AsU8Char(c) == c % 256

\* The field array of a handle: slot 0 holds i, slot 1 r, slot 2 c.
NoFields == [f \in 0..2 |-> 0]

NoAccum == [t \in WriteTypes |-> [count |-> 0, max |-> 0, total |-> 0]]

NoHeaderCall ==
    [op |-> "none", ty |-> "", val |-> <<>>, lines |-> 0, prov |-> <<>>, refs |-> <<>>]

NoObs == [line |-> 0, ty |-> "", i |-> 0, r |-> 0, c |-> 0, len |-> 0, list |-> <<>>]

WriteIdle ==
    /\ wstage = "none"
    /\ wfield = NoFields
    /\ wgiven = NoFields
    /\ wlines = <<>>
    /\ winputs = <<>>
    /\ waccum = NoAccum
    /\ provenance = <<>>
    /\ reference = <<>>
    /\ wres = NoHeaderCall
    /\ given = NoAccum
    /\ rpos = 0
    /\ rtype = ""
    /\ rfield = NoFields
    /\ rlist = <<>>
    /\ raccum = NoAccum
    /\ robs = NoObs
    /\ wcomments = <<>>

\* open_write_new has returned a handle: nothing staged, nothing written.
WriteInit ==
    /\ wstage = "writing"
    /\ wfield = NoFields
    /\ wgiven = NoFields
    /\ wlines = <<>>
    /\ winputs = <<>>
    /\ waccum = NoAccum
    /\ provenance = <<>>
    /\ reference = <<>>
    /\ wres = NoHeaderCall
    /\ given = NoAccum
    /\ rpos = 0
    /\ rtype = ""
    /\ rfield = NoFields
    /\ rlist = <<>>
    /\ raccum = NoAccum
    /\ robs = NoObs
    /\ wcomments = <<>>

\* The native header calls add the entry and return true while no line has
\* been written; afterwards they add nothing and return false.
oneHeaderOpen == Len(wlines) = 0

HeaderCall(op, val) ==
    wres' = [op |-> op, ty |-> "", val |-> val, lines |-> Len(wlines),
             prov |-> provenance, refs |-> reference]

\* A variant of add_provenance that reports success whatever the native call says.
add_provenanceAlwaysTrue(arg) ==
    IF arg = "nul" THEN InvalidCString ELSE Ok(TRUE)

\* add_provenance: CString::new(..)? on the strings, then Ok(result).
add_provenance(arg) ==
    IF arg = "nul" THEN InvalidCString ELSE Ok(oneHeaderOpen)

\* add_reference: CString::new(filename)?, then Ok(result).
add_reference(arg) ==
    IF arg = "nul" THEN InvalidCString ELSE Ok(oneHeaderOpen)

AddProvenance ==
    /\ wstage = "writing"
    /\ \E arg \in HeaderArgs :
          /\ HeaderCall("add_provenance", add_provenance(arg))
          /\ provenance' = IF arg # "nul" /\ oneHeaderOpen
                           THEN Append(provenance, <<"prog", "version", "command">>)
                           ELSE provenance
    /\ Len(provenance') <= MaxHeader
    /\ UNCHANGED <<wstage, wfield, wgiven, wlines, winputs, waccum, reference, given>>
    /\ UNCHANGED <<rpos, rtype, rfield, rlist, raccum, robs, wcomments>>
    /\ UNCHANGED <<scanVars, openVars, schemaVars, fieldVars, closeVars, accessVars>>

AddReference ==
    /\ wstage = "writing"
    /\ \E arg \in HeaderArgs, count \in RefCounts :
          /\ HeaderCall("add_reference", add_reference(arg))
          /\ reference' = IF arg # "nul" /\ oneHeaderOpen
                          THEN Append(reference, <<"filename", count>>)
                          ELSE reference
    /\ Len(reference') <= MaxHeader
    /\ UNCHANGED <<wstage, wfield, wgiven, wlines, winputs, waccum, provenance, given>>
    /\ UNCHANGED <<rpos, rtype, rfield, rlist, raccum, robs, wcomments>>
    /\ UNCHANGED <<scanVars, openVars, schemaVars, fieldVars, closeVars, accessVars>>

\* write_comment: CString::new(comment)?, the native call, then Ok(()).
write_comment(arg) ==
    IF arg = "nul" THEN InvalidCString ELSE Ok(<<>>)

\* The native call attaches the comment to the current line; whether it does
\* so once a line has been written is not told to the caller.
WriteComment ==
    /\ wstage = "writing"
    /\ \E arg \in HeaderArgs :
          /\ HeaderCall("write_comment", write_comment(arg))
          /\ IF arg = "nul" THEN UNCHANGED wcomments
             ELSE \/ wcomments' = Append(wcomments, Len(wlines))
                  \/ ~oneHeaderOpen /\ UNCHANGED wcomments
    /\ Len(wcomments') <= MaxHeader
    /\ UNCHANGED <<wstage, wfield, wgiven, wlines, winputs, waccum, provenance, reference, given>>
    /\ UNCHANGED <<rpos, rtype, rfield, rlist, raccum, robs>>
    /\ UNCHANGED <<scanVars, openVars, schemaVars, fieldVars, closeVars, accessVars>>

\* set_int(0, value): wgiven is what the caller passed, wfield what is stored.
StageInt ==
    /\ wstage = "writing"
    /\ \E value \in IntVals :
          /\ wfield' = [wfield EXCEPT ![0] = value]
          /\ wgiven' = [wgiven EXCEPT ![0] = value]
    /\ UNCHANGED <<wstage, wlines, winputs, waccum, provenance, reference, wres, given>>
    /\ UNCHANGED <<rpos, rtype, rfield, rlist, raccum, robs, wcomments>>
    /\ UNCHANGED <<scanVars, openVars, schemaVars, fieldVars, closeVars, accessVars>>

\* set_real(1, value)
StageReal ==
    /\ wstage = "writing"
    /\ \E value \in RealVals :
          /\ wfield' = [wfield EXCEPT ![1] = value]
          /\ wgiven' = [wgiven EXCEPT ![1] = value]
    /\ UNCHANGED <<wstage, wlines, winputs, waccum, provenance, reference, wres, given>>
    /\ UNCHANGED <<rpos, rtype, rfield, rlist, raccum, robs, wcomments>>
    /\ UNCHANGED <<scanVars, openVars, schemaVars, fieldVars, closeVars, accessVars>>

\* set_char(2, value): (*fields.add(field)).c = value as i8
StageChar ==
    /\ wstage = "writing"
    /\ \E value \in CharVals :
          /\ wfield' = [wfield EXCEPT ![2] = AsI8(value)]
          /\ wgiven' = [wgiven EXCEPT ![2] = value]
    /\ UNCHANGED <<wstage, wlines, winputs, waccum, provenance, reference, wres, given>>
    /\ UNCHANGED <<rpos, rtype, rfield, rlist, raccum, robs, wcomments>>
    /\ UNCHANGED <<scanVars, openVars, schemaVars, fieldVars, closeVars, accessVars>>

\* The accumulator of a line type after one more line with a list of n items.
Accumulate(acc, t, n) ==
    [acc EXCEPT ![t] = [count |-> acc[t].count + 1,
                        max |-> IF n > acc[t].max THEN n ELSE acc[t].max,
                        total |-> acc[t].total + n]]

\* The fields a line of a type carries: the staged ones for T, none otherwise.
LineFields(t, f) == IF t = "T" THEN f ELSE NoFields

\* write_line(line_type, list_len, list_buf): the native call encodes the
\* staged fields and the list and counts the line.
WriteLine ==
    /\ wstage = "writing"
    /\ Len(wlines) < MaxWritten
    /\ \E t \in WriteTypes :
          \E list \in Payloads(t) :
             /\ wlines' = Append(wlines, [t |-> t, f |-> LineFields(t, wfield), list |-> list])
             /\ winputs' = Append(winputs, [t |-> t, f |-> LineFields(t, wgiven), list |-> list])
             /\ waccum' = Accumulate(waccum, t, Len(list))
    /\ UNCHANGED <<wstage, wfield, wgiven, provenance, reference, wres, given>>
    /\ UNCHANGED <<rpos, rtype, rfield, rlist, raccum, robs, wcomments>>
    /\ UNCHANGED <<scanVars, openVars, schemaVars, fieldVars, closeVars, accessVars>>

\* drop(writer), then open_read of the file: the header of the file gives the
\* statistics the writer accumulated.
CloseWriter ==
    /\ wstage = "writing"
    /\ wstage' = "reading"
    /\ wfield' = NoFields
    /\ wgiven' = NoFields
    /\ wres' = NoHeaderCall
    /\ given' = waccum
    /\ UNCHANGED <<wlines, winputs, waccum, provenance, reference>>
    /\ UNCHANGED <<rpos, rtype, rfield, rlist, raccum, robs, wcomments>>
    /\ UNCHANGED <<scanVars, openVars, schemaVars, fieldVars, closeVars, accessVars>>

\* read_line on the read handle: the next line is decoded into the handle and
\* counted, or the end tag returned.
ReadBackLine ==
    /\ wstage = "reading"
    /\ rtype # EndTag
    /\ IF rpos < Len(wlines)
       THEN /\ rpos' = rpos + 1
            /\ rtype' = wlines[rpos + 1].t
            /\ rfield' = wlines[rpos + 1].f
            /\ rlist' = wlines[rpos + 1].list
            /\ raccum' = Accumulate(raccum, wlines[rpos + 1].t, Len(wlines[rpos + 1].list))
       ELSE /\ rtype' = EndTag
            /\ UNCHANGED <<rpos, rfield, rlist, raccum>>
    /\ UNCHANGED <<wstage, wfield, wgiven, wlines, winputs, waccum, provenance, reference, wres, given>>
    /\ UNCHANGED <<robs, wcomments>>
    /\ UNCHANGED <<scanVars, openVars, schemaVars, fieldVars, closeVars, accessVars>>

\* CStr::from_ptr(ptr): the bytes before the first NUL
RECURSIVE CStrBytes(_)
CStrBytes(bytes) ==
    IF bytes = <<>> \/ Head(bytes) = 0 THEN <<>>
    ELSE <<Head(bytes)>> \o CStrBytes(Tail(bytes))

\* char(field): (*fields.add(field)).c as u8 as char
charOf(c) == AsU8Char(c)

\* string() on an S line; int_list() and real_list() give the len() items.
ListOf(t, list) == IF t = "S" THEN CStrBytes(list) ELSE list

\* The accessors on the line just read: int(0), real(1), char(2), len() and the list.
Observe ==
    /\ wstage = "reading"
    /\ rpos > 0
    /\ rtype # EndTag
    /\ robs' = [line |-> rpos, ty |-> rtype, i |-> rfield[0], r |-> rfield[1],
                c |-> charOf(rfield[2]), len |-> Len(rlist), list |-> ListOf(rtype, rlist)]
    /\ UNCHANGED <<wstage, wfield, wgiven, wlines, winputs, waccum, provenance, reference, wres, given>>
    /\ UNCHANGED <<rpos, rtype, rfield, rlist, raccum, wcomments>>
    /\ UNCHANGED <<scanVars, openVars, schemaVars, fieldVars, closeVars, accessVars>>

StatTypes == WriteTypes \cup {"Q"}

\* The number of read_line calls made on the read handle.
ReadCalls == IF rtype = EndTag THEN rpos + 1 ELSE rpos

\* oneStats on a read handle: false for a type without info, else the header's
\* count, max and total of the type.
oneStats(t) ==
    IF t \notin WriteTypes THEN [ok |-> FALSE, count |-> 0, max |-> 0, total |-> 0]
    ELSE [ok |-> TRUE, count |-> given[t].count, max |-> given[t].max, total |-> given[t].total]

\* A variant of stats that returns the total before the maximum.
statsSwapped(t) ==
    LET s == oneStats(t)
    IN  IF s.ok THEN Ok(<<s.count, s.total, s.max>>)
        ELSE Other(<<"Failed to get stats for line type", t>>)

\* stats(line_type)
stats(t) ==
    LET s == oneStats(t)
    IN  IF s.ok THEN Ok(<<s.count, s.max, s.total>>)
        ELSE Other(<<"Failed to get stats for line type", t>>)

\* object(line_type): -1 without info, else accum.count
object(t) == IF t \notin WriteTypes THEN -1 ELSE raccum[t].count

StatsCall ==
    /\ wstage = "reading"
    /\ \E t \in StatTypes :
          wres' = [op |-> "stats", ty |-> t, val |-> stats(t), lines |-> ReadCalls,
                   prov |-> <<>>, refs |-> <<>>]
    /\ UNCHANGED <<wstage, wfield, wgiven, wlines, winputs, waccum, provenance, reference, given>>
    /\ UNCHANGED <<rpos, rtype, rfield, rlist, raccum, robs, wcomments>>
    /\ UNCHANGED <<scanVars, openVars, schemaVars, fieldVars, closeVars, accessVars>>

ObjectCall ==
    /\ wstage = "reading"
    /\ \E t \in StatTypes :
          wres' = [op |-> "object", ty |-> t, val |-> Ok(<<object(t)>>), lines |-> ReadCalls,
                   prov |-> <<>>, refs |-> <<>>]
    /\ UNCHANGED <<wstage, wfield, wgiven, wlines, winputs, waccum, provenance, reference, given>>
    /\ UNCHANGED <<rpos, rtype, rfield, rlist, raccum, robs, wcomments>>
    /\ UNCHANGED <<scanVars, openVars, schemaVars, fieldVars, closeVars, accessVars>>

----------------------------------------------------------------------------
(* The read handle as a state machine *)

NoCall == [op |-> "none", ty |-> "", arg |-> 0, val |-> <<>>, pre |-> 0]

GroupNums == -1..MaxArg

\* The handle of a specification that reads no file.
NoFileOpen == file = <<>> /\ isBinary = TRUE

Fresh ==
    /\ pos = 0
    /\ cur = NoLine
    /\ line = 0
    /\ res = NoCall

Init ==
    /\ file \in Files
    /\ isBinary = TRUE
    /\ pos = 0
    /\ cur = NoLine
    /\ line = 0
    /\ res = NoCall
    /\ OpenIdle
    /\ SchemaIdle
    /\ FieldIdle
    /\ AccessIdle
    /\ CloseIdle
    /\ WriteIdle

SetHandle(h) ==
    /\ h.line <= Len(file) + MaxLineNo
    /\ pos' = h.pos
    /\ cur' = h.cur
    /\ line' = h.line
    /\ UNCHANGED <<file, isBinary, openVars, schemaVars, fieldVars, closeVars, writeVars, accessVars>>

Call(op, arg, r) ==
    /\ SetHandle(r.h)
    /\ res' = [op |-> op, ty |-> "", arg |-> arg, val |-> r.val, pre |-> pos]

ReadLine ==
    /\ SetHandle(oneReadLine(Handle))
    /\ res' = NoCall

Goto ==
    \E t \in ObjectTypes \cup {"C"}, i \in 0..MaxArg :
        /\ oneGoto(Handle, t, i).ok
        /\ SetHandle(oneGoto(Handle, t, i).h)
        /\ res' = NoCall

GetSequenceName ==
    \E seq_id \in 0..MaxArg :
        Call("get_sequence_name", seq_id, get_sequence_name(Handle, seq_id))

GetAllGroupsMetadata ==
    Call("get_all_groups_metadata", 0, get_all_groups_metadata(Handle))

GetGroupSequenceNames ==
    \E group_num \in GroupNums :
        Call("get_group_sequence_names", group_num,
             get_group_sequence_names(Handle, group_num))

GetAllSequenceNames ==
    Call("get_all_sequence_names", 0, get_all_sequence_names(Handle))

GetGroupSequenceLengths ==
    \E group_num \in GroupNums :
        Call("get_group_sequence_lengths", group_num,
             get_group_sequence_lengths(Handle, group_num))

GetGroupContigOffsets ==
    \E group_num \in GroupNums :
        Call("get_group_contig_offsets", group_num,
             get_group_contig_offsets(Handle, group_num))

GetAllSequenceLengths ==
    Call("get_all_sequence_lengths", 0, get_all_sequence_lengths(Handle))

GetAllContigOffsets ==
    Call("get_all_contig_offsets", 0, get_all_contig_offsets(Handle))

Next ==
    \/ ReadLine
    \/ Goto
    \/ GetSequenceName
    \/ GetAllGroupsMetadata
    \/ GetGroupSequenceNames
    \/ GetAllSequenceNames
    \/ GetGroupSequenceLengths
    \/ GetGroupContigOffsets
    \/ GetAllSequenceLengths
    \/ GetAllContigOffsets

Spec == Init /\ [][Next]_vars

\* A variant of goto that numbers the objects from 0.
gotoZeroBased(h, line_type, index) ==
    LET g == oneGoto(h, line_type, index - 1)
    IN  [h |-> g.h, val |-> IF ~g.ok THEN Other(<<"Failed to goto object">>) ELSE Ok(<<>>)]

\* A variant of goto that does not look at what the native call returns.
gotoUnchecked(h, line_type, index) ==
    [h |-> oneGoto(h, line_type, index).h, val |-> Ok(<<>>)]

\* OneFile::goto: the native call, and an error when it returns false.
goto(h, line_type, index) ==
    LET success == oneGoto(h, line_type, index)
    IN  [h |-> success.h,
         val |-> IF ~success.ok THEN Other(<<"Failed to goto object">>) ELSE Ok(<<>>)]

\* The types goto is called with: the object types, a type without an index
\* and a type unknown to the schema.
GotoTypes == ObjectTypes \cup {"C", "Z"}

GotoCall ==
    \E t \in GotoTypes, i \in -1..MaxArg :
        LET r == goto(Handle, t, i)
        IN  /\ SetHandle(r.h)
            /\ res' = [op |-> "goto", ty |-> t, arg |-> i, val |-> r.val, pre |-> pos]

\* The files goto is tried on: two scaffolds of different names, a group, a
\* contig and an alignment in every order, and the example files.
GotoAlphabet ==
    { Ln("g", 0, <<>>),
      Ln("S", 0, <<"x">>),
      Ln("S", 0, <<"y", " ", "z">>),
      Ln("C", 1, <<>>),
      Ln("A", 0, <<>>) }

GotoFiles == UNION { [1..k -> GotoAlphabet] : k \in 0..MaxLines } \cup ExampleFiles

\* A read handle on a binary or an ASCII file, under read_line and goto.
GotoInit ==
    /\ file \in GotoFiles
    /\ isBinary \in BOOLEAN
    /\ Fresh
    /\ OpenIdle
    /\ SchemaIdle
    /\ FieldIdle
    /\ AccessIdle
    /\ CloseIdle
    /\ WriteIdle

GotoNext ==
    \/ ReadLine
    \/ GotoCall

SpecGoto == GotoInit /\ [][GotoNext]_vars

\* The files the scanners are called on from every cursor position: a group,
\* a scaffold, a contig, a gap and an alignment in every order.
CursorAlphabet ==
    { Ln("g", 0, <<>>),
      Ln("S", 0, <<"x">>),
      Ln("C", 1, <<>>),
      Ln("G", 2, <<>>),
      Ln("A", 0, <<>>) }

CursorFiles == UNION { [1..k -> CursorAlphabet] : k \in 0..MaxLines } \cup ExampleFiles

\* A read handle under read_line, goto and the scanners in any order.
CursorInit ==
    /\ file \in CursorFiles
    /\ isBinary = TRUE
    /\ Fresh
    /\ OpenIdle
    /\ SchemaIdle
    /\ FieldIdle
    /\ AccessIdle
    /\ CloseIdle
    /\ WriteIdle

SpecCursor == CursorInit /\ [][Next]_vars

\* The scanners called once on a freshly opened handle, over more files.
ScanInit ==
    /\ file \in ScanFiles
    /\ isBinary = TRUE
    /\ Fresh
    /\ OpenIdle
    /\ SchemaIdle
    /\ FieldIdle
    /\ AccessIdle
    /\ CloseIdle
    /\ WriteIdle

ScanNext ==
    \/ Fresh /\ GetSequenceName
    \/ Fresh /\ GetAllGroupsMetadata
    \/ Fresh /\ GetGroupSequenceNames
    \/ Fresh /\ GetAllSequenceNames
    \/ Fresh /\ GetGroupSequenceLengths
    \/ Fresh /\ GetGroupContigOffsets
    \/ Fresh /\ GetAllSequenceLengths
    \/ Fresh /\ GetAllContigOffsets

SpecScan == ScanInit /\ [][ScanNext]_vars

\* The lines of the standalone file that holds the lines of the file behind
\* its first k lines at top level.
GdbLines(k) == SubSeq(file, k + 1, Len(file))

\* read_gdb_metadata(path) on the standalone file: it opens a handle of its
\* own, so the handle on the file stays where it is.
ReadGdbMetadata ==
    \E k \in 0..1 :
        /\ k = 1 => Len(file) >= 1 /\ file[1].t = "g"
        /\ Call("read_gdb_metadata", k,
                [h |-> Handle, val |-> read_gdb_metadataMaps(GdbLines(k))])

GdbNext ==
    \/ Fresh /\ ReadGdbMetadata

\* read_gdb_metadata called once, over the files of the scanners.
SpecGdb == ScanInit /\ [][GdbNext]_vars

\* The line types the scanners act on; every other type is passed over.
SkeletonTypes == {"g", "S", "G", "C", "A", "a"}

IsSkeletonLine(l) == l.t \in SkeletonTypes

\* The file is replaced by the file without its lines of other types (masking
\* records and the like); the result of the call made before stays recorded.
DeleteOtherLines ==
    /\ \E j \in 1..Len(file) : ~IsSkeletonLine(file[j])
    /\ file' = SelectSeq(file, IsSkeletonLine)
    /\ UNCHANGED <<isBinary, pos, cur, line, res, openVars, schemaVars, fieldVars,
                   closeVars, writeVars, accessVars>>

OtherNext ==
    \/ Fresh /\ GetSequenceName
    \/ Fresh /\ GetAllGroupsMetadata
    \/ Fresh /\ GetGroupSequenceNames
    \/ Fresh /\ GetAllSequenceNames
    \/ Fresh /\ GetGroupSequenceLengths
    \/ Fresh /\ GetGroupContigOffsets
    \/ Fresh /\ GetAllSequenceLengths
    \/ Fresh /\ GetAllContigOffsets
    \/ Fresh /\ ReadGdbMetadata
    \/ DeleteOtherLines

\* One scan of a file, and the same file with its other lines deleted.
SpecOther == ScanInit /\ [][OtherNext]_vars

\* Threads that each call an open entry point once.
OpenStart == Fresh /\ NoFileOpen /\ OpenInit /\ SchemaIdle /\ FieldIdle /\ AccessIdle /\ CloseIdle /\ WriteIdle

SpecOpen == OpenStart /\ [][OpenNext]_vars

\* Threads calling OneSchema::from_text.
SchemaStart == Fresh /\ NoFileOpen /\ OpenIdle /\ SchemaInit /\ FieldIdle /\ AccessIdle /\ CloseIdle /\ WriteIdle

SpecSchema == SchemaStart /\ [][SchemaNext]_vars

\* The steps of one from_text call.
FromTextStep(t) ==
    \/ FromTextBadCString(t)
    \/ FromTextLock(t)
    \/ NativeWriteTemp(t)
    \/ NativeParseTemp(t)
    \/ FromTextReturn(t)

\* from_text under a scheduler that lets every thread run again and again.
SpecSchemaFair ==
    SchemaStart /\ [][SchemaNext]_vars /\ \A t \in Threads : WF_vars(FromTextStep(t))

\* The field accessors and mutators called on one handle.
FieldStart == Fresh /\ NoFileOpen /\ OpenIdle /\ SchemaIdle /\ FieldInit /\ AccessIdle /\ CloseIdle /\ WriteIdle

SpecField == FieldStart /\ [][FieldNext]_vars

\* Handles opened, then closed with close() or dropped.
CloseStart == Fresh /\ NoFileOpen /\ OpenIdle /\ SchemaIdle /\ FieldIdle /\ AccessIdle /\ CloseInit /\ WriteIdle

SpecClose == CloseStart /\ [][CloseNext]_vars

\* A write handle taking header calls and lines in any order.
HeaderStart == Fresh /\ NoFileOpen /\ OpenIdle /\ SchemaIdle /\ FieldIdle /\ AccessIdle /\ CloseIdle /\ WriteInit

HeaderNext ==
    \/ AddProvenance
    \/ AddReference
    \/ WriteLine

SpecHeader == HeaderStart /\ [][HeaderNext]_vars

\* The strings of S lines: letters and whitespace in every order.
NameChars == {"x", "y", " "}

Names == UNION { [1..k -> NameChars] : k \in 0..MaxName }

\* trim_sequence_name called on the string of an S line.
TrimCall ==
    /\ \E name \in Names :
          res' = [op |-> "trim_sequence_name", ty |-> "", arg |-> 0,
                  val |-> <<name, trim_sequence_name(name)>>, pre |-> 0]
    /\ UNCHANGED <<file, isBinary, pos, cur, line>>
    /\ UNCHANGED <<openVars, schemaVars, fieldVars, closeVars, writeVars, accessVars>>

TrimStart == Fresh /\ NoFileOpen /\ OpenIdle /\ SchemaIdle /\ FieldIdle /\ AccessIdle /\ CloseIdle /\ WriteIdle

TrimNext == TrimCall

SpecTrim == TrimStart /\ [][TrimNext]_vars

\* A write handle taking comments and lines in any order.
CommentStart == Fresh /\ NoFileOpen /\ OpenIdle /\ SchemaIdle /\ FieldIdle /\ AccessIdle /\ CloseIdle /\ WriteInit

CommentNext ==
    \/ WriteComment
    \/ WriteLine

SpecComment == CommentStart /\ [][CommentNext]_vars

\* Lines staged and written, the writer closed, and the file read back.
RoundTripStart == Fresh /\ NoFileOpen /\ OpenIdle /\ SchemaIdle /\ FieldIdle /\ AccessIdle /\ CloseIdle /\ WriteInit

RoundTripNext ==
    \/ StageInt
    \/ StageReal
    \/ StageChar
    \/ WriteLine
    \/ CloseWriter
    \/ ReadBackLine
    \/ Observe

SpecRoundTrip == RoundTripStart /\ [][RoundTripNext]_vars

\* Lines written, the writer closed, and the statistics asked of the reader.
StatsStart == Fresh /\ NoFileOpen /\ OpenIdle /\ SchemaIdle /\ FieldIdle /\ AccessIdle /\ CloseIdle /\ WriteInit

StatsNext ==
    \/ WriteLine
    \/ CloseWriter
    \/ ReadBackLine
    \/ StatsCall
    \/ ObjectCall

SpecStats == StatsStart /\ [][StatsNext]_vars

----------------------------------------------------------------------------
(* The skeleton of a file, read off the lines themselves *)

RECURSIVE SumOver(_, _)
SumOver(S, f) ==
    IF S = {} THEN 0
    ELSE LET x == CHOOSE y \in S : TRUE IN f[x] + SumOver(S \ {x}, f)

HasGroup(k) == k >= 1 /\ k <= Count("g")

\* The contigs the pre-pass is to count for group p: the C lines between its
\* 'g' line and the next 'g', 'A' or 'a' line or the end of input.
GroupContigs(p) ==
    { j \in Positions("C") :
        /\ j > Nth("g", p)
        /\ \A m \in (Nth("g", p) + 1)..(j - 1) : file[m].t \notin {"g", "A", "a"} }

ContigsBefore(k) ==
    SumOver(1..(k - 1), [p \in 1..(k - 1) |-> Cardinality(GroupContigs(p))])

\* The first line of the alignment section behind the first group, or the end.
AlnStart ==
    LET aln == { j \in (Nth("g", 1) + 1)..Len(file) : file[j].t \in {"A", "a"} }
    IN  IF aln = {} THEN Len(file) + 1 ELSE CHOOSE j \in aln : \A m \in aln : j <= m

\* The C lines of the skeleton in file order, and the rank of each among them.
SkeletonContigs ==
    IF Count("g") = 0 THEN {}
    ELSE { j \in Positions("C") : j > Nth("g", 1) /\ j < AlnStart }

IdOf(j) == Cardinality({ m \in SkeletonContigs : m < j })

\* The name of the last S line of the skeleton before line j.
NameOf(j) ==
    LET ss == { m \in Positions("S") : m > Nth("g", 1) /\ m < j }
    IN  IF ss = {} THEN <<>>
        ELSE trim_sequence_name(file[CHOOSE m \in ss : \A n \in ss : n <= m].s)

ScanCalls ==
    { "get_sequence_name", "get_all_groups_metadata", "get_group_sequence_names",
      "get_all_sequence_names", "get_group_sequence_lengths",
      "get_group_contig_offsets", "get_all_sequence_lengths",
      "get_all_contig_offsets" }

GroupCalls ==
    { "get_group_sequence_names", "get_group_sequence_lengths",
      "get_group_contig_offsets" }

----------------------------------------------------------------------------
(* Claims *)

\* C1: a single-group scan of an existing group k that holds a contig keys the
\* group's first contig by the number of C lines in groups 1..k-1: that ID is
\* the least key of the returned map.
C1_GroupScanGlobalIds ==
    (res.op \in GroupCalls /\ HasGroup(res.arg) /\ GroupContigs(res.arg) # {})
        => /\ ContigsBefore(res.arg) \in DOMAIN res.val
           /\ \A k \in DOMAIN res.val : k >= ContigsBefore(res.arg)

\* C2: a scanner call returns with the cursor at its pre-call position, so the
\* read_line calls that follow return the lines they would have returned
\* without the call.
C2_CursorRestored ==
    res.op \in ScanCalls => pos = res.pre

\* C3: in an all-groups scan the i-th C line of the skeleton, in file order and
\* whatever its group, has ID i-1: the names map gives it the name of its
\* scaffold, the offsets map its own length, and the names and lengths maps
\* have exactly the keys 0..n-1; on the two-group file of the testable
\* properties the three maps are the ones stated there.
C3_AllGroupsGlobalIds ==
    /\ res.op = "get_all_sequence_names" =>
          /\ DOMAIN res.val = { IdOf(j) : j \in SkeletonContigs }
          /\ \A j \in SkeletonContigs : res.val[IdOf(j)] = NameOf(j)
          /\ file = TwoGroups =>
                res.val = (0 :> chrA) @@ (1 :> chrA) @@ (2 :> chrB)
    /\ res.op = "get_all_sequence_lengths" =>
          /\ DOMAIN res.val = 0..(Cardinality(SkeletonContigs) - 1)
          /\ file = TwoGroups =>
                res.val = (0 :> 160) @@ (1 :> 160) @@ (2 :> 200)
    /\ res.op = "get_all_contig_offsets" =>
          /\ \A j \in SkeletonContigs :
                /\ IdOf(j) \in DOMAIN res.val
                /\ res.val[IdOf(j)][2] = file[j].i
          /\ file = TwoGroups =>
                res.val = (0 :> <<0, 100>>) @@ (1 :> <<110, 50>>) @@ (2 :> <<0, 200>>)

\* C3 witness: the names scan of the two-group file has reached the contig of
\* the second group.
C3_Witness ==
    /\ file = TwoGroups
    /\ res.op = "get_all_sequence_names"
    /\ 2 \in DOMAIN res.val

\* C4: get_all_groups_metadata gives every contig, in the maps of its group,
\* the key it has in get_all_sequence_names(): the key sets of two groups are
\* disjoint and every group's names map agrees with the all-groups names map.
C4_GroupsMetadataGlobalIds ==
    res.op = "get_all_groups_metadata" =>
        LET all == get_all_sequence_names([pos |-> 0, cur |-> NoLine, line |-> 0]).val
        IN  /\ \A a, b \in DOMAIN res.val :
                  a # b => DOMAIN res.val[a].names \cap DOMAIN res.val[b].names = {}
            /\ \A a \in DOMAIN res.val : \A k \in DOMAIN res.val[a].names :
                  /\ k \in DOMAIN all
                  /\ all[k] = res.val[a].names[k]
                  /\ k \in DOMAIN res.val[a].lengths
                  /\ k \in DOMAIN res.val[a].offsets


InErrorWindow(t) == opc[t] \in {"parsing", "returned"}

C7_FromTextSerialized ==
    /\ \A t \in Threads :
          spc[t] \in {"locked", "written", "parsed"} => schemaLock = t
    /\ \A t \in Threads :
          (spc[t] = "done" /\ stext[t].kind = "valid") =>
              sresult[t] = Ok(SchemaPtr(stext[t]))

\* C7 witness: every thread has called from_text on a valid text and has its
\* schema.
C7_Witness ==
    \A t \in Threads :
        spc[t] = "done" /\ stext[t].kind = "valid" /\ sresult[t][1] = "Ok"

\* C8: the native code that touches the bootstrap flag is run by one thread at
\* a time, so every open_read of the valid file succeeds and every open_read of
\* a nonexistent file fails with a message that holds its own path.
C8_BootstrapSerialized ==
    /\ \A t, u \in Threads : (t # u /\ opc[t] = "parsing") => opc[u] # "parsing"
    /\ \A t \in Threads :
          (opc[t] = "done" /\ oentry[t] = "open_read") =>
              IF Exists(opath[t]) THEN oresult[t] = Ok(opath[t])
              ELSE /\ oresult[t][1] = "OpenFailed"
                   /\ opath[t] \in Range(oresult[t][2])


\* C9: the accessors and mutators check the field number against the number
\* of slots: no call reads or writes memory outside the field array.
C9_FieldAccessInBounds == oob = FALSE

\* C10: the native close has run exactly once for a handle that was closed
\* with close() or dropped, and not at all before that or where the open
\* failed.
C10_ClosedExactlyOnce ==
    \A h \in HandleIds :
        handles[h].closes = IF handles[h].stage \in {"closed", "dropped"} THEN 1 ELSE 0

\* C10 witness: one handle has been closed with close(), another dropped.
C10_Witness ==
    \E h, k \in HandleIds :
        handles[h].stage = "closed" /\ handles[k].stage = "dropped"

\* C17: a single-group scan of a group number that names no group of the file
\* (below 1, or above the number of 'g' objects) returns an empty map.
C17_MissingGroupEmpty ==
    (res.op \in GroupCalls /\ ~HasGroup(res.arg)) => res.val = EmptyMap

\* C18: on a file with no 'g' line every scanner returns an empty result and
\* reads no line.
C18_NoGroupsEmpty ==
    (res.op \in ScanCalls /\ Count("g") = 0)
        => /\ res.val = IF res.op = "get_sequence_name" THEN None ELSE <<>>
           /\ line = 0
           /\ pos = res.pre

\* C20: get_sequence_name(seq_id) returns the name of the scaffold of the
\* contig of the skeleton whose global ID is seq_id, in whichever group the
\* contig lies, and None exactly when the skeleton has no contig of that ID.
C20_SequenceNameGlobalId ==
    res.op = "get_sequence_name" =>
        IF \E j \in SkeletonContigs : IdOf(j) = res.arg
        THEN \A j \in SkeletonContigs :
                IdOf(j) = res.arg =>
                    /\ res.val # None
                    /\ trim_sequence_name(res.val[2]) = NameOf(j)
        ELSE res.val = None

\* The lines a handle returns when read_line is called on it until the end tag.
RECURSIVE ReadToEnd(_)
ReadToEnd(h) ==
    LET h2 == oneReadLine(h)
    IN  IF h2.cur.t = EndTag THEN <<>> ELSE <<h2.cur>> \o ReadToEnd(h2)

\* The full sequential scan of a freshly opened handle, and its objects of type t.
FullScan == ReadToEnd([pos |-> 0, cur |-> NoLine, line |-> 0])

IsType(c, t) == c.t = t

ObjectsOf(t) == SelectSeq(FullScan, LAMBDA c : IsType(c, t))

IsOk(v) == v[1] = "Ok"

\* C12: on a binary file, for an object type t and i in 1..count(t), goto(t, i)
\* succeeds and the read_line that follows yields the i-th line of type t of
\* the full sequential scan: the same type and the same field values.
C12_GotoThenReadIsIthObject ==
    (res.op = "goto" /\ isBinary /\ res.ty \in ObjectTypes
        /\ res.arg >= 1 /\ res.arg <= Len(ObjectsOf(res.ty)))
        => /\ IsOk(res.val)
           /\ oneReadLine(Handle).cur = ObjectsOf(res.ty)[res.arg]

\* C12 witness: goto has moved the cursor to a second object that is not where
\* the cursor was.
C12_Witness ==
    /\ res.op = "goto" /\ isBinary /\ res.arg = 2 /\ IsOk(res.val)
    /\ pos # res.pre
    /\ pos >= 2

\* C13: on a binary file, from any cursor position, goto(t, 0) on an object
\* type succeeds and the read_line calls that follow return the lines a
\* freshly opened handle returns, up to the end of input.
C13_GotoZeroRestartsStream ==
    (res.op = "goto" /\ isBinary /\ res.ty \in ObjectTypes /\ res.arg = 0)
        => /\ IsOk(res.val)
           /\ ReadToEnd(Handle) = FullScan

\* C13 witness: goto(t, 0) was called with the cursor inside a file of several
\* lines.
C13_Witness ==
    /\ res.op = "goto" /\ isBinary /\ res.arg = 0 /\ IsOk(res.val)
    /\ res.pre >= 1
    /\ Len(file) >= 2

\* C14: goto returns an error when the file is not binary or the index is
\* outside 0..count(type), and returns Ok only with the cursor at the start of
\* the index-th object of the type, or at the start of the data for index 0.
C14_GotoErrorOrRepositioned ==
    res.op = "goto" =>
        /\ (~isBinary \/ res.arg < 0 \/ res.arg > Count(res.ty)) => ~IsOk(res.val)
        /\ IsOk(res.val) =>
              pos = IF res.arg = 0 THEN 0 ELSE Nth(res.ty, res.arg) - 1

\* C14 witness: goto has failed on an ASCII file, for an index in range.
C14_Witness ==
    /\ res.op = "goto" /\ ~isBinary /\ ~IsOk(res.val)
    /\ res.arg >= 1 /\ res.arg <= Count(res.ty)

\* C11: called with C strings on a write handle, add_provenance and
\* add_reference return true while no line has been written, and return false
\* and leave the provenance and reference lists as they were once a line has
\* been written.
C11_HeaderCallsTrueUntilFirstLine ==
    (wres.op \in {"add_provenance", "add_reference"} /\ IsOk(wres.val)) =>
        /\ wres.lines = 0 => wres.val[2] = TRUE
        /\ wres.lines > 0 =>
              /\ wres.val[2] = FALSE
              /\ provenance = wres.prov
              /\ reference = wres.refs

\* A header call accepted before the first line, and one refused after it.
C11_Witness ==
    /\ wres.op = "add_provenance"
    /\ IsOk(wres.val)
    /\ wres.val[2] = FALSE
    /\ wres.lines > 0
    /\ Len(provenance) > 0
    /\ Len(reference) > 0

\* The lines of a type in the written file, and their list lengths.
WrittenOf(t) == { k \in 1..Len(wlines) : wlines[k].t = t }

ListLens(t) == { Len(wlines[k].list) : k \in WrittenOf(t) }

MaxListLen(t) ==
    IF WrittenOf(t) = {} THEN 0
    ELSE CHOOSE n \in ListLens(t) : \A m \in ListLens(t) : m <= n

TotalListLen(t) ==
    SumOver(WrittenOf(t), [k \in 1..Len(wlines) |-> Len(wlines[k].list)])

\* C15: once read_line has been called until the end tag, stats of a line type
\* of the schema is the count of the lines of that type, their longest list
\* and the sum of their list lengths, and object of the type is that count;
\* stats of a type outside the schema is an error.
C15_StatsAfterFullRead ==
    /\ (wres.op = "stats" /\ wres.ty \notin WriteTypes) => wres.val[1] = "Other"
    /\ (wres.op = "stats" /\ wres.ty \in WriteTypes /\ wres.lines = Len(wlines) + 1) =>
          /\ IsOk(wres.val)
          /\ wres.val[2] = <<Cardinality(WrittenOf(wres.ty)), MaxListLen(wres.ty),
                             TotalListLen(wres.ty)>>
    /\ (wres.op = "object" /\ wres.ty \in WriteTypes /\ wres.lines = Len(wlines) + 1) =>
          wres.val[2] = <<Cardinality(WrittenOf(wres.ty))>>

\* stats after a full read of a file whose lines of the type differ in length.
C15_Witness ==
    /\ wres.op = "stats"
    /\ wres.lines = Len(wlines) + 1
    /\ IsOk(wres.val)
    /\ wres.val[2][1] = 2
    /\ wres.val[2][2] # wres.val[2][3]
    /\ raccum[wres.ty].count = 2

\* C16: the lines read back are the lines written, in order and followed by
\* the end tag, and the accessors return on each the field values, the list
\* length and the list payload the writer was given.
C16_RoundTrip ==
    /\ (wstage = "reading" /\ rpos > 0 /\ rtype # EndTag) => rtype = winputs[rpos].t
    /\ rtype = EndTag => rpos = Len(winputs)
    /\ robs.line > 0 =>
          LET w == winputs[robs.line]
          IN  /\ robs.ty = w.t
              /\ robs.i = w.f[0]
              /\ robs.r = w.f[1]
              /\ robs.c = w.f[2]
              /\ robs.len = Len(w.list)
              /\ robs.list = w.list

FreshHandle == [pos |-> 0, cur |-> NoLine, line |-> 0]

\* What a scanner returns when called first thing on a handle.
FreshVal(op, arg) ==
    CASE op = "get_sequence_name" -> get_sequence_name(FreshHandle, arg).val
      [] op = "get_all_groups_metadata" -> get_all_groups_metadata(FreshHandle).val
      [] op = "get_group_sequence_names" -> get_group_sequence_names(FreshHandle, arg).val
      [] op = "get_all_sequence_names" -> get_all_sequence_names(FreshHandle).val
      [] op = "get_group_sequence_lengths" -> get_group_sequence_lengths(FreshHandle, arg).val
      [] op = "get_group_contig_offsets" -> get_group_contig_offsets(FreshHandle, arg).val
      [] op = "get_all_sequence_lengths" -> get_all_sequence_lengths(FreshHandle).val
      [] op = "get_all_contig_offsets" -> get_all_contig_offsets(FreshHandle).val

\* C21: whatever read_line, goto and scanner calls came before it, a scanner
\* call returns what it returns when called first thing on the handle.
C21_ScanIndependentOfCursor ==
    res.op \in ScanCalls => res.val = FreshVal(res.op, res.arg)

\* C21 witness: an all-groups names scan called with the cursor behind the
\* first contig has returned that contig.
C21_Witness ==
    /\ res.op = "get_all_sequence_names"
    /\ res.pre > 0
    /\ \E j \in SkeletonContigs : j <= res.pre
    /\ 0 \in DOMAIN res.val

\* What write_comment tells its caller: an error, success, or false.
CommentReport ==
    IF wres.val[1] # "Ok" THEN "error"
    ELSE IF wres.val[2] = <<>> THEN "success" ELSE "false"

\* C22: write_comment called after the first data line reports the
\* failure as a boolean false, not as an error and not as success.
C22_WriteCommentReportsFalse ==
    (wres.op = "write_comment" /\ wres.lines > 0) => CommentReport = "false"

\* The number of entries of the maps of all the groups returned by
\* get_all_groups_metadata.
GroupEntries(groups) ==
    SumOver(DOMAIN groups, [a \in DOMAIN groups |-> Cardinality(DOMAIN groups[a].names)])

\* A scanner other than the all-groups offsets scan stops at the alignment
\* section and has flushed what was pending.
StopsAtAlignment ==
    /\ res.op \in {"get_all_sequence_names", "get_all_sequence_lengths"} =>
          DOMAIN res.val = 0..(Cardinality(SkeletonContigs) - 1)
    /\ res.op = "get_all_groups_metadata" =>
          /\ GroupEntries(res.val) = Cardinality(SkeletonContigs)
          /\ \A a \in DOMAIN res.val :
                DOMAIN res.val[a].lengths = DOMAIN res.val[a].names
    /\ (res.op \in GroupCalls /\ HasGroup(res.arg)) =>
          Cardinality(DOMAIN res.val) = Cardinality(GroupContigs(res.arg))

\* C23: every traversal stops at the first 'A' or 'a' line met after its first
\* line, or at the end of input, with the pending scaffold flushed: the maps
\* hold an entry for each contig before the alignment section and none for a
\* line at or after its start.
C23_StopsAtAlignmentStart ==
    /\ StopsAtAlignment
    /\ res.op = "get_all_contig_offsets" =>
          DOMAIN res.val = 0..(Cardinality(SkeletonContigs) - 1)

\* The scaffold of the contig at line j: from the last S or 'g' line before it
\* to the next S, 'g', 'A' or 'a' line or the end of input.
SegStart(j) ==
    LET ss == { m \in 1..(j - 1) : file[m].t \in {"S", "g"} }
    IN  IF ss = {} THEN 0 ELSE CHOOSE m \in ss : \A n \in ss : n <= m

SegEnd(j) ==
    LET es == { m \in (j + 1)..Len(file) : file[m].t \in {"S", "g", "A", "a"} }
    IN  IF es = {} THEN Len(file) + 1 ELSE CHOOSE m \in es : \A n \in es : m <= n

LineLens == [m \in 1..Len(file) |-> file[m].i]

\* The summed lengths of the C and G lines of the scaffold of line j.
ScaffoldTotal(j) ==
    SumOver({ m \in (SegStart(j) + 1)..(SegEnd(j) - 1) : file[m].t \in {"C", "G"} },
            LineLens)

RankIn(S, j) == Cardinality({ m \in S : m < j })

MinKey(m) == CHOOSE k \in DOMAIN m : \A x \in DOMAIN m : k <= x

\* C24: the total length reported for a contig is the sum of the lengths of
\* the C and G lines of its scaffold, before and after the contig, whichever
\* of an S line, a 'g' line, the alignment section or the end of input closes
\* the scaffold; the contigs of one scaffold report the same total.
C24_ScaffoldTotals ==
    /\ res.op = "get_all_sequence_lengths" =>
          \A j \in SkeletonContigs :
              /\ IdOf(j) \in DOMAIN res.val
              /\ res.val[IdOf(j)] = ScaffoldTotal(j)
    /\ (res.op = "get_group_sequence_lengths" /\ HasGroup(res.arg)) =>
          \A j \in GroupContigs(res.arg) :
              /\ DOMAIN res.val # {}
              /\ MinKey(res.val) + RankIn(GroupContigs(res.arg), j) \in DOMAIN res.val
              /\ res.val[MinKey(res.val) + RankIn(GroupContigs(res.arg), j)] = ScaffoldTotal(j)
    /\ res.op = "get_all_groups_metadata" =>
          \A a \in DOMAIN res.val : \A j \in GroupContigs(a) :
              /\ RankIn(GroupContigs(a), j) \in DOMAIN res.val[a].lengths
              /\ res.val[a].lengths[RankIn(GroupContigs(a), j)] = ScaffoldTotal(j)

\* C24 witness: on the two-group file the first contig reports 160, the sum of
\* its own length, the gap behind it and the second contig, and the contig of
\* the second group 200.
C24_Witness ==
    /\ file = TwoGroups
    /\ res.op = "get_all_sequence_lengths"
    /\ res.val = (0 :> 160) @@ (1 :> 160) @@ (2 :> 200)

\* The summed lengths of the C and G lines between the start of the scaffold
\* of line j and line j.
OffsetOf(j) ==
    SumOver({ m \in (SegStart(j) + 1)..(j - 1) : file[m].t \in {"C", "G"} }, LineLens)

\* C25: a G line occupies space and is no contig: the offset recorded for a
\* contig is the sum of the lengths of the C and G lines between the start of
\* its scaffold (its S line, or the start of its group) and the contig,
\* together with the contig's own length, and no map has more entries than the
\* file has C lines.
C25_GapsOccupySpace ==
    /\ res.op = "get_all_contig_offsets" =>
          /\ \A j \in SkeletonContigs :
                /\ IdOf(j) \in DOMAIN res.val
                /\ res.val[IdOf(j)] = <<OffsetOf(j), file[j].i>>
          /\ Cardinality(DOMAIN res.val) <= Count("C")
    /\ (res.op = "get_group_contig_offsets" /\ HasGroup(res.arg)) =>
          /\ \A j \in GroupContigs(res.arg) :
                /\ DOMAIN res.val # {}
                /\ MinKey(res.val) + RankIn(GroupContigs(res.arg), j) \in DOMAIN res.val
                /\ res.val[MinKey(res.val) + RankIn(GroupContigs(res.arg), j)]
                      = <<OffsetOf(j), file[j].i>>
          /\ Cardinality(DOMAIN res.val) = Cardinality(GroupContigs(res.arg))
    /\ res.op = "get_all_groups_metadata" =>
          \A a \in DOMAIN res.val :
              /\ \A j \in GroupContigs(a) :
                    /\ RankIn(GroupContigs(a), j) \in DOMAIN res.val[a].offsets
                    /\ res.val[a].offsets[RankIn(GroupContigs(a), j)]
                          = <<OffsetOf(j), file[j].i>>
              /\ Cardinality(DOMAIN res.val[a].offsets) = Cardinality(GroupContigs(a))

\* C25 witness: on the two-group file the second contig lies behind a contig
\* of 100 and a gap of 10, and the contig of the second group starts at 0.
C25_Witness ==
    /\ file = TwoGroups
    /\ res.op = "get_all_contig_offsets"
    /\ res.val = (0 :> <<0, 100>>) @@ (1 :> <<110, 50>>) @@ (2 :> <<0, 200>>)

HasWhitespace(s) == \E k \in DOMAIN s : s[k] \in WhiteSpace

\* C26: the scaffold name recorded for the string of an S line is the prefix
\* of the string that precedes its first whitespace character, and holds no
\* whitespace character.
C26_NameTrimmedAtFirstWhitespace ==
    /\ res.op = "trim_sequence_name" =>
          /\ res.val[2] = TakeWord(res.val[1])
          /\ ~HasWhitespace(res.val[2])
    /\ (res.op = "get_sequence_name" /\ res.val # None) =>
          ~HasWhitespace(res.val[2])

\* The 'g' lines of the skeleton: from the first 'g' up to the alignment
\* section or the end of input.
SkeletonGroups ==
    IF Count("g") = 0 THEN {}
    ELSE { j \in Positions("g") : j < AlnStart }

\* C28: get_all_groups_metadata returns one tuple per 'g' group of the
\* skeleton, whatever the group holds and whatever line ends the scan.
C28_OneTuplePerGroup ==
    res.op = "get_all_groups_metadata" => Len(res.val) = Cardinality(SkeletonGroups)

\* The file holds one 'g' line followed by S, C, G and other lines only.
OneGroupFile ==
    /\ Len(file) >= 1
    /\ file[1].t = "g"
    /\ \A j \in 2..Len(file) : file[j].t \notin {"g", "A", "a"}

\* C29: read_gdb_metadata on the standalone file holding a sequence of S, C,
\* G and other lines returns the names, lengths and offsets the three
\* all-groups scans return on the binary file holding that sequence in one
\* 'g' group.
C29_GdbScanEqualsOneGroupScan ==
    (res.op = "read_gdb_metadata" /\ res.arg = 1 /\ OneGroupFile) =>
        res.val = << get_all_sequence_names(FreshHandle).val,
                     get_all_sequence_lengths(FreshHandle).val,
                     get_all_contig_offsets(FreshHandle).val >>

\* read_gdb_metadata has read a contig with a gap in front of it from a
\* sequence that also holds a masking record.
C29_Witness ==
    /\ res.op = "read_gdb_metadata"
    /\ res.arg = 1
    /\ OneGroupFile
    /\ \E j \in 2..Len(file) : file[j].t = "M"
    /\ DOMAIN res.val[1] = {0}
    /\ res.val[3][0][1] > 0

\* C27: lines of types other than g, S, G, C, A and a are ignored: what a
\* scanner or read_gdb_metadata returned for a file is what it returns for the
\* file with all such lines deleted.
C27_OtherLinesIgnored ==
    /\ res.op \in ScanCalls => res.val = FreshVal(res.op, res.arg)
    /\ res.op = "read_gdb_metadata" => res.val = read_gdb_metadataMaps(GdbLines(res.arg))

\* The same for every call but a single-group scan of group number 0.
OtherLinesIgnoredFromGroupOne ==
    /\ (res.op \in ScanCalls /\ ~(res.op \in GroupCalls /\ res.arg = 0)) =>
            res.val = FreshVal(res.op, res.arg)
    /\ res.op = "read_gdb_metadata" => res.val = read_gdb_metadataMaps(GdbLines(res.arg))

\* A scaffold without contigs and with a gap, in front of a scaffold with one
\* contig, and the same behind a scaffold with a contig.
EmptyScaffoldFirst ==
    << Ln("g", 0, <<>>), Ln("S", 0, <<"x">>), Ln("G", 2, <<>>),
       Ln("S", 0, <<"y", " ", "z">>), Ln("C", 1, <<>>) >>

EmptyScaffoldLast ==
    << Ln("g", 0, <<>>), Ln("S", 0, <<"x">>), Ln("C", 1, <<>>),
       Ln("S", 0, <<"y", " ", "z">>), Ln("G", 2, <<>>) >>

EmptyScaffoldFiles == ScanFiles \cup {EmptyScaffoldFirst, EmptyScaffoldLast}

\* The line behind the scaffold that starts at the S line j: the next S or
\* 'g' line, or the end of the file.
ScaffoldEnd(j) ==
    LET ss == { m \in (j + 1)..Len(file) : file[m].t \in {"S", "g"} }
    IN  IF ss = {} THEN Len(file) + 1 ELSE CHOOSE m \in ss : \A n \in ss : m <= n

\* The S lines of the skeleton whose scaffold holds no C line.
EmptyScaffolds ==
    IF Count("g") = 0 THEN {}
    ELSE { j \in Positions("S") :
             /\ j > Nth("g", 1)
             /\ j < AlnStart
             /\ \A m \in (j + 1)..(ScaffoldEnd(j) - 1) : file[m].t # "C" }

\* The file without the S line j and the G lines of its scaffold.
WithoutScaffold(j) ==
    LET keep == { m \in 1..Len(file) :
                    ~(m = j \/ (m > j /\ m < ScaffoldEnd(j) /\ file[m].t = "G")) }
        nth(i) == CHOOSE m \in keep : Cardinality({ n \in keep : n <= m }) = i
    IN  [i \in 1..Cardinality(keep) |-> file[nth(i)]]

\* The file is replaced by the file without one of its scaffolds of zero
\* contigs; the result of the call made before stays recorded.
DeleteEmptyScaffold ==
    \E j \in EmptyScaffolds :
        /\ file' = WithoutScaffold(j)
        /\ UNCHANGED <<isBinary, pos, cur, line, res, openVars, schemaVars, fieldVars,
                       closeVars, writeVars, accessVars>>

EmptyStart ==
    /\ file \in EmptyScaffoldFiles
    /\ isBinary = TRUE
    /\ Fresh
    /\ OpenIdle
    /\ SchemaIdle
    /\ FieldIdle
    /\ AccessIdle
    /\ CloseIdle
    /\ WriteIdle

EmptyNext ==
    \/ Fresh /\ GetSequenceName
    \/ Fresh /\ GetAllGroupsMetadata
    \/ Fresh /\ GetGroupSequenceNames
    \/ Fresh /\ GetAllSequenceNames
    \/ Fresh /\ GetGroupSequenceLengths
    \/ Fresh /\ GetGroupContigOffsets
    \/ Fresh /\ GetAllSequenceLengths
    \/ Fresh /\ GetAllContigOffsets
    \/ Fresh /\ ReadGdbMetadata
    \/ DeleteEmptyScaffold

\* One scan of a file, and the same file with scaffolds of zero contigs deleted.
SpecEmpty == EmptyStart /\ [][EmptyNext]_vars

\* C30: a scaffold with zero contigs contributes nothing to any returned map:
\* what a scanner or read_gdb_metadata returned for a file (keys, contig IDs,
\* names, totals and offsets) is what it returns for the file without the S
\* line and the gap lines of such a scaffold.
C30_EmptyScaffoldContributesNothing ==
    /\ res.op \in ScanCalls => res.val = FreshVal(res.op, res.arg)
    /\ res.op = "read_gdb_metadata" => res.val = read_gdb_metadataMaps(GdbLines(res.arg))

\* The same for the scans that carry no scaffold name over a 'g' line: all
\* but get_all_sequence_names and get_all_groups_metadata, and
\* read_gdb_metadata on a sequence without 'g' lines.
EmptyScaffoldLeavesLengthsAndOffsets ==
    /\ res.op \in ScanCalls \ {"get_all_sequence_names", "get_all_groups_metadata"} =>
            res.val = FreshVal(res.op, res.arg)
    /\ (res.op = "read_gdb_metadata" /\ res.arg = 1 /\ Count("g") = 1) =>
            res.val = read_gdb_metadataMaps(GdbLines(res.arg))

AllMapCalls ==
    {"get_all_sequence_names", "get_all_sequence_lengths", "get_all_contig_offsets"}

\* The key sets of the three all-groups maps agree and are 0..n-1 for the n
\* contigs of the skeleton.
AllKeysAgree ==
    res.op \in AllMapCalls =>
        /\ \A op \in AllMapCalls : DOMAIN res.val = DOMAIN FreshVal(op, 0)
        /\ DOMAIN res.val = 0..(Cardinality(SkeletonContigs) - 1)

\* The key sets of the three single-group maps of one group agree.
GroupKeysAgree ==
    res.op \in GroupCalls =>
        \A op \in GroupCalls : DOMAIN res.val = DOMAIN FreshVal(op, res.arg)

\* C31: get_all_sequence_names, get_all_sequence_lengths and
\* get_all_contig_offsets return maps with one key set, the range 0..n-1 for
\* the n contigs scanned, and the three get_group_* maps of one group have
\* one key set.
C31_KeySetsAgree == AllKeysAgree /\ GroupKeysAgree

\* The same on a file whose skeleton is not followed by an 'a' line.
AllKeysAgreeWithoutLowerA ==
    Count("a") = 0 => AllKeysAgree

\* What get_all_sequence_names() holds for the contig ID.
NameInMap(id) ==
    LET names == get_all_sequence_names(FreshHandle).val
    IN  IF id \in DOMAIN names THEN Some(names[id]) ELSE None

\* C32: get_sequence_name(id) yields the name get_all_sequence_names() holds
\* for id, or None when the map has no key id.
C32_SequenceNameAgreesWithMap ==
    res.op = "get_sequence_name" => res.val = NameInMap(res.arg)

\* The same on a file of one group whose S lines hold no whitespace.
SequenceNameAgreesInOneGroup ==
    (/\ res.op = "get_sequence_name"
     /\ Count("g") <= 1
     /\ \A j \in Positions("S") : file[j].s = trim_sequence_name(file[j].s)) =>
        res.val = NameInMap(res.arg)

\* C33: a scanner call leaves the current record as it was: after the call
\* line_type(), line_number() and the field values are those of the line that
\* was current before the call.
C33_CurrentRecordKept ==
    [][res'.op \in ScanCalls => (cur' = cur /\ line' = line)]_vars

\* The same for a call that reads no line: the file has no 'g' line and the
\* call is not a single-group scan of group number 0.
CurrentRecordKeptWithoutGroups ==
    [][(/\ res'.op \in ScanCalls
        /\ Count("g") = 0
        /\ ~(res'.op \in GroupCalls /\ res'.arg = 0)) =>
            (cur' = cur /\ line' = line)]_vars

IntervalNext ==
    \/ Fresh /\ GetAllGroupsMetadata
    \/ Fresh /\ ReadGdbMetadata

\* The two scans that return lengths and offsets together, called once.
SpecInterval == ScanInit /\ [][IntervalNext]_vars

\* The C lines read_gdb_metadata reads, and the S line in front of each (0
\* when there is none): its flat pass knows no other scaffold boundary.
GdbContigs == { m \in (res.arg + 1)..Len(file) : file[m].t = "C" }

GdbScaffold(j) ==
    LET ss == { m \in (res.arg + 1)..(j - 1) : file[m].t = "S" }
    IN  IF ss = {} THEN 0 ELSE CHOOSE m \in ss : \A n \in ss : n <= m

\* The interval of a contig fits in the total length of its scaffold, and the
\* intervals of two contigs of one scaffold follow each other in ID order.
IntervalsFit(lengths, offsets, contigs, j, scaffoldOf(_)) ==
    LET k == RankIn(contigs, j)
    IN  /\ k \in DOMAIN offsets
        /\ k \in DOMAIN lengths
        /\ offsets[k][1] >= 0
        /\ offsets[k][1] + offsets[k][2] <= lengths[k]
        /\ \A j2 \in contigs :
              (j < j2 /\ scaffoldOf(j) = scaffoldOf(j2)) =>
                  /\ RankIn(contigs, j2) \in DOMAIN offsets
                  /\ k < RankIn(contigs, j2)
                  /\ offsets[k][1] + offsets[k][2] <= offsets[RankIn(contigs, j2)][1]

\* C34: with C and G lengths that are not negative, the interval
\* [offset, offset + length) of every contig lies within the total length of
\* its scaffold, and the intervals of the contigs of one scaffold are disjoint
\* and ordered by contig ID, in get_all_groups_metadata and read_gdb_metadata.
C34_IntervalsWithinScaffold ==
    /\ res.op = "get_all_groups_metadata" =>
          \A a \in DOMAIN res.val : \A j \in GroupContigs(a) :
              IntervalsFit(res.val[a].lengths, res.val[a].offsets,
                           GroupContigs(a), j, SegStart)
    /\ res.op = "read_gdb_metadata" =>
          \A j \in GdbContigs :
              IntervalsFit(res.val[2], res.val[3], GdbContigs, j, GdbScaffold)

\* On the two-group file the second contig of the first scaffold lies at 110,
\* behind a contig of 100 and a gap of 10, within the total of 160.
C34_Witness ==
    /\ res.op = "get_all_groups_metadata"
    /\ file = TwoGroups
    /\ Len(res.val) = 2
    /\ res.val[1].offsets[1] = <<110, 50>>
    /\ res.val[1].lengths[1] = 160

\* C35: from_text releases SCHEMA_FROM_TEXT_LOCK on every return path and
\* rejects a text with an interior NUL before it takes the lock, so under a
\* fair scheduler every call returns, whatever the other calls return.
C35_FromTextAlwaysReturns ==
    /\ \A t \in Threads : <>(spc[t] = "done")
    /\ []((\A t \in Threads : spc[t] = "done") => schemaLock = 0)
    /\ [](\A t \in Threads :
            stext[t].kind = "nul" => (schemaLock # t /\ spc[t] \in {"start", "done"}))

\* One call has returned SchemaError for a malformed text, another call its
\* schema, and the lock is free.
C35_Witness ==
    /\ schemaLock = 0
    /\ \E t, u \in Threads :
          /\ spc[t] = "done" /\ stext[t].kind = "malformed" /\ sresult[t][1] = "SchemaError"
          /\ spc[u] = "done" /\ stext[u].kind = "valid" /\ sresult[u][1] = "Ok"

\* The scanners step by step: one action per seek and per loop iteration. The
\* record res holds the call in progress: its kind in ty, its argument in
\* arg, saved_line in pre, and in val the position in the code (pc), the loop
\* variable prev_group and the locals st of the loops.
Running == res.op = "running"

At(pc) == Running /\ res.val.pc = pc

KeepFile ==
    UNCHANGED <<file, isBinary, openVars, schemaVars, fieldVars, closeVars, writeVars, accessVars>>

MoveTo(h) == pos' = h.pos /\ cur' = h.cur /\ line' = h.line

\* let saved_line = self.line_number(); the single-group scans start with
\* the pre-pass, the others with the seek to the first group.
BeginScan ==
    \E kind \in ScanCalls, arg \in GroupNums :
        /\ Fresh
        /\ kind \notin GroupCalls => arg \in 0..MaxArg
        /\ kind \notin GroupCalls \cup {"get_sequence_name"} => arg = 0
        /\ res' = [ op |-> "running", ty |-> kind, arg |-> arg, pre |-> line,
                    val |-> [ pc |-> IF kind \in GroupCalls THEN "prepass" ELSE "seek",
                              prev |-> 1,
                              st |-> [InitSt(0) EXCEPT !.target = arg] ] ]
        /\ UNCHANGED <<pos, cur, line>>
        /\ KeepFile

\* for prev_group in 1..group_num { if oneGoto(self.ptr, 'g', prev_group) {
PrePassGoto ==
    /\ At("prepass")
    /\ LET g == oneGoto(Handle, "g", res.val.prev)
       IN  IF res.val.prev >= res.arg
           THEN /\ res' = [res EXCEPT !.val.pc = "seek"]
                /\ UNCHANGED <<pos, cur, line>>
           ELSE IF g.ok
           THEN /\ res' = [res EXCEPT !.val.pc = "count"]
                /\ MoveTo(g.h)
           ELSE /\ res' = [res EXCEPT !.val.prev = @ + 1]
                /\ UNCHANGED <<pos, cur, line>>
    /\ KeepFile

\* if line_type == '\0' || line_type == 'g' || line_type == 'A' || line_type == 'a'
PrePassStops(t) == t \in {EndTag, "g", "A", "a"}

\* One iteration of the inner loop of the pre-pass.
PrePassCount ==
    /\ At("count")
    /\ LET h2 == oneReadLine(Handle)
       IN  /\ MoveTo(h2)
           /\ res' = IF PrePassStops(h2.cur.t)
                     THEN [res EXCEPT !.val.pc = "prepass", !.val.prev = @ + 1]
                     ELSE IF h2.cur.t = "C"
                     THEN [res EXCEPT !.val.st.contig_id = @ + 1]
                     ELSE res
    /\ KeepFile

\* if oneGoto(self.ptr, 'g', 1) or oneGoto(self.ptr, 'g', group_num); when the
\* seek fails the call returns its empty result.
SeekGroup ==
    /\ At("seek")
    /\ LET g == oneGoto(Handle, "g", IF res.ty \in GroupCalls THEN res.arg ELSE 1)
       IN  IF g.ok
           THEN /\ res' = [res EXCEPT !.val.pc = "loop"]
                /\ MoveTo(g.h)
           ELSE /\ res' = [res EXCEPT !.val.pc = "done"]
                /\ UNCHANGED <<pos, cur, line>>
    /\ KeepFile

\* One iteration of the traversal loop; the iteration that breaks or returns
\* is followed by the restoring seek.
LoopIteration ==
    /\ At("loop")
    /\ LET h2 == oneReadLine(Handle)
           st2 == Step(res.ty, res.val.st, h2.cur)
       IN  IF st2.done
           THEN /\ res' = [res EXCEPT !.val.st = st2, !.val.pc = "done"]
                /\ MoveTo(Restore(h2, res.pre))
           ELSE /\ res' = [res EXCEPT !.val.st = [st2 EXCEPT !.first = FALSE]]
                /\ MoveTo(h2)
    /\ KeepFile

StepFiles == FilesUpTo(MaxLines) \cup ExampleFiles

StepStart ==
    /\ file \in StepFiles
    /\ isBinary = TRUE
    /\ Fresh
    /\ OpenIdle
    /\ SchemaIdle
    /\ FieldIdle
    /\ AccessIdle
    /\ CloseIdle
    /\ WriteIdle

StepNext ==
    \/ BeginScan
    \/ PrePassGoto
    \/ PrePassCount
    \/ SeekGroup
    \/ LoopIteration

\* A scanner call on a thread that keeps running.
SpecStep == StepStart /\ [][StepNext]_vars /\ WF_vars(StepNext)

\* What the call returns from the locals of its loop.
ReturnOf(kind, st) ==
    CASE kind = "get_sequence_name" -> IF st.found THEN Some(st.name) ELSE None
      [] kind = "get_all_groups_metadata" -> st.groups
      [] kind \in {"get_group_sequence_names", "get_all_sequence_names"} -> st.names
      [] kind \in {"get_group_sequence_lengths", "get_all_sequence_lengths"} -> st.lengths
      [] kind \in {"get_group_contig_offsets", "get_all_contig_offsets"} -> st.offsets

\* The lines the call has read so far.
LinesRead == line - res.pre

\* C36: every scanner call terminates: each iteration of a traversal loop or
\* of a pre-pass loop reads one line or meets the end of input, where the loop
\* ends, and the call returns what the scanner returns.
C36_ScannerTerminates ==
    /\ Running ~> At("done")
    /\ [][(At("loop") \/ At("count")) =>
            \/ line' = line + 1
            \/ cur'.t = EndTag /\ ~(At("loop") \/ At("count"))']_vars
    /\ [](At("done") => ReturnOf(res.ty, res.val.st) = FreshVal(res.ty, res.arg))

\* A single-group scan of group 2 has gone through its pre-pass and returned
\* at the end of input.
C36_Witness ==
    /\ At("done")
    /\ res.ty = "get_group_sequence_names"
    /\ res.arg = 2
    /\ cur.t = EndTag
    /\ 0 \in DOMAIN res.val.st.names

----------------------------------------------------------------------------
(* The byte offsets of the alignments: get_alignment_byte_offset,
   get_all_alignment_byte_offsets, seek_to_byte_offset, seek_and_read_line *)

\* The byte offset of the line at position j of the file, and the position a
\* byte offset leads to: offsets are counted in whole lines from the start of
\* the data.
ByteOffsetOf(j) == j - 1

\* What a slot of the index array holds when no object belongs to it: the
\* start of the data or its end.
SlackOffsets == {0, Len(file)}

\* The index array of the 'A' lines as the native library fills it. The
\* sources hold no native code, so both numberings are possible: objects from
\* slot 0 ("fromZero"), or from slot 1 as the specification words it, slot 0
\* then belonging to no object ("fromOne"). indexSize is the capacity of the
\* array. at[k + 1] is slot k.
RECURSIVE ArraysOf(_, _)
ArraysOf(S, size) ==
    IF size = 0 THEN { <<>> }
    ELSE { Append(a, v) : a \in ArraysOf(S, size - 1), v \in S }

IndexArrays(layout, size) ==
    { a \in ArraysOf(SlackOffsets \cup { ByteOffsetOf(j) : j \in Positions("A") }, size) :
        \A i \in 1..Count("A") :
            a[IF layout = "fromZero" THEN i ELSE i + 1] = ByteOffsetOf(Nth("A", i)) }

IndexSizes(layout) ==
    IF layout = "fromZero" THEN { Count("A"), Count("A") + 1 }
    ELSE { Count("A") + 1, Count("A") + 2 }

Layouts == {"fromZero", "fromOne"}

\* OneFile::get_alignment_byte_offset
get_alignment_byte_offset(alignment_index) ==
    IF ~aindex.has THEN None
    ELSE IF alignment_index < 0 \/ alignment_index >= aindex.size THEN None
    ELSE Some(aindex.at[alignment_index + 1])

\* A Vec<i64>.
Vec(v) == <<"Vec", v>>

\* OneFile::get_all_alignment_byte_offsets: given.count + 1 slots are read;
\* a slot behind the array holds whatever the memory behind it holds. The
\* array has room for every object, so at most one slot is read behind it.
get_all_alignment_byte_offsets(behind) ==
    IF ~aindex.has THEN Vec(<<>>)
    ELSE IF aindex.count + 1 <= aindex.size THEN Vec(SubSeq(aindex.at, 1, aindex.count + 1))
    ELSE Vec(aindex.at \o behind)

SlotsBehind ==
    IF aindex.has /\ aindex.count + 1 > aindex.size
    THEN { <<v>> : v \in SlackOffsets }
    ELSE { <<>> }

\* OneFile::seek_to_byte_offset: both seeks fail or both succeed; the record
\* and the line number of the handle stay.
seek_to_byte_offset(h, byte_offset) ==
    IF byte_offset < 0
    THEN [h |-> h, val |-> Other(<<"Failed to seek to byte">>)]
    ELSE [h |-> [h EXCEPT !.pos = byte_offset], val |-> Ok(<<>>)]

\* OneFile::seek_and_read_line
seek_and_read_line(h, byte_offset) ==
    LET sought == seek_to_byte_offset(h, byte_offset)
    IN  IF sought.val[1] # "Ok" THEN sought
        ELSE LET r == oneReadLine(sought.h) IN [h |-> r, val |-> Ok(r.cur.t)]

IndexCall(op, arg, v) ==
    ires' = [op |-> op, arg |-> arg, val |-> v, pre |-> Handle]

GetAlignmentByteOffset ==
    \E i \in -1..(MaxArg + 1) :
        /\ IndexCall("get_alignment_byte_offset", i, get_alignment_byte_offset(i))
        /\ UNCHANGED <<scanVars, openVars, schemaVars, fieldVars, closeVars, writeVars,
                       aindex, lline, lres>>

GetAllAlignmentByteOffsets ==
    \E behind \in SlotsBehind :
        /\ IndexCall("get_all_alignment_byte_offsets", 0, get_all_alignment_byte_offsets(behind))
        /\ UNCHANGED <<scanVars, openVars, schemaVars, fieldVars, closeVars, writeVars,
                       aindex, lline, lres>>

SeekAndReadLine ==
    \E byte_offset \in -1..Len(file) :
        LET r == seek_and_read_line(Handle, byte_offset)
        IN  /\ r.h.line <= Len(file) + MaxLineNo
            /\ IndexCall("seek_and_read_line", byte_offset, r.val)
            /\ pos' = r.h.pos
            /\ cur' = r.h.cur
            /\ line' = r.h.line
            /\ UNCHANGED <<file, isBinary, res, openVars, schemaVars, fieldVars, closeVars,
                           writeVars, aindex, lline, lres>>

\* The files the byte offsets are read from: up to MaxLines lines out of two
\* alignments that differ and a scaffold.
IndexAlphabet == { Ln("A", 0, <<>>), Ln("A", 1, <<>>), Ln("S", 0, <<"x">>) }

IndexFiles == UNION { [1..k -> IndexAlphabet] : k \in 0..MaxLines }

IndexStart ==
    /\ file \in IndexFiles
    /\ isBinary \in BOOLEAN
    /\ Fresh
    /\ OpenIdle /\ SchemaIdle /\ FieldIdle /\ CloseIdle /\ WriteIdle
    /\ lline = NoList
    /\ lres = NoAccess
    /\ ires = NoAccess
    /\ \/ (~isBinary \/ Count("A") = 0) /\ aindex = NoIndex
       \/ /\ isBinary
          /\ \E layout \in Layouts : \E size \in IndexSizes(layout) :
                \E a \in IndexArrays(layout, size) :
                    aindex = [has |-> TRUE, size |-> size, count |-> Count("A"), at |-> a]

IndexNext ==
    \/ GetAlignmentByteOffset
    \/ GetAllAlignmentByteOffsets
    \/ SeekAndReadLine

SpecIndex == IndexStart /\ [][IndexNext]_vars

\* The index numbers objects from slot 0, or from slot 1.
FromZero == \A i \in 1..aindex.count : aindex.at[i] = ByteOffsetOf(Nth("A", i))

FromOne == \A i \in 1..aindex.count : aindex.at[i + 1] = ByteOffsetOf(Nth("A", i))

\* The call returned None outside the index and the slot's entry inside it.
EntryOrNone ==
    ires.op = "get_alignment_byte_offset" =>
        ires.val = IF ~aindex.has \/ ires.arg < 0 \/ ires.arg >= aindex.size
                   THEN None ELSE Some(aindex.at[ires.arg + 1])

\* Every position of the vector holds what the single call returns for it.
AgreesWithAll ==
    ires.op = "get_all_alignment_byte_offsets" =>
        \A p \in 1..Len(ires.val[2]) : get_alignment_byte_offset(p - 1) = Some(ires.val[2][p])

\* The line read at a returned offset is the one goto('A', i + 1) and
\* read_line read from the same handle.
SeekReadsObject ==
    ires.op = "seek_and_read_line" =>
        \A i \in 0..(MaxArg + 1) :
            get_alignment_byte_offset(i) = Some(ires.arg) =>
                /\ ires.val[1] = "Ok"
                /\ cur = oneReadLine(goto(ires.pre, "A", i + 1).h).cur

\* C37: get_alignment_byte_offset(i) returns None when the 'A' type has no
\* index or i is outside [0, indexSize) and the i-th index entry otherwise; it
\* agrees with get_all_alignment_byte_offsets() on every position of that
\* vector; and seek_and_read_line at the returned offset reads the same line
\* as goto('A', i+1) followed by read_line().
C37_ByteOffsetsAgreeWithGoto ==
    /\ EntryOrNone
    /\ AgreesWithAll
    /\ SeekReadsObject

\* What is left of it: with objects from slot 0 the seek reads object i + 1
\* for every i below the count, and with an array of more than given.count
\* slots the vector agrees with the single calls.
SeekReadsObjectFromZero ==
    (ires.op = "seek_and_read_line" /\ aindex.has /\ FromZero) =>
        \A i \in 0..(aindex.count - 1) :
            get_alignment_byte_offset(i) = Some(ires.arg) =>
                /\ ires.val[1] = "Ok"
                /\ cur = oneReadLine(goto(ires.pre, "A", i + 1).h).cur

AgreesWithAllInsideArray ==
    (aindex.has /\ aindex.size > aindex.count) => AgreesWithAll

----------------------------------------------------------------------------
(* The list accessors: len, dna_char, dna_2bit, int_list, real_list *)

MaxLen == 5

\* The top bytes a list-length slot is tried with: none, the lowest and the
\* highest bit of the byte, and all of them.
TopBytes == {0, 1, 128, 255}

\* The number in the low 16 bits of a word.
RECURSIVE LowValue(_, _)
LowValue(w, b) == IF b = 16 THEN 0 ELSE w[b] + 2 * LowValue(w, b + 1)

BitAnd(v, w) == [ b \in Bits |-> v[b] * w[b] ]

BitNot(v) == [ b \in Bits |-> 1 - v[b] ]

\* The carry into bit b of v + w, and the sum modulo 2^64.
RECURSIVE Carry(_, _, _)
Carry(v, w, b) ==
    IF b = 0 THEN 0 ELSE (v[b - 1] + w[b - 1] + Carry(v, w, b - 1)) \div 2

WordAdd(v, w) == [ b \in Bits |-> (v[b] + w[b] + Carry(v, w, b)) % 2 ]

WordNeg(v) == WordAdd(BitNot(v), Word(0, 1))

ShiftRight2(v) == [ b \in Bits |-> IF b + 2 \in Bits THEN v[b + 2] ELSE 0 ]

\* The division of an i64 by 4, which rounds towards zero.
DivideBy4(v) ==
    IF v[63] = 0 THEN ShiftRight2(v) ELSE WordNeg(ShiftRight2(WordNeg(v)))

\* 0xffffffffffffff
LenMask == [ b \in Bits |-> IF b < MaskBits THEN 1 ELSE 0 ]

\* OneFile::len without the mask.
lenUnmasked(l) ==
    IF ~l.info THEN Word(0, 0)
    ELSE l.len

\* OneFile::len
len(l) ==
    IF ~l.info THEN Word(0, 0)
    ELSE BitAnd(l.len, LenMask)

\* std::slice::from_raw_parts: a slice is its pointer and its length.
from_raw_parts(ptr, n) == [ptr |-> ptr, len |-> n]

\* OneFile::dna_char
dna_char(l) ==
    IF ~l.list THEN None
    ELSE Some(from_raw_parts("_oneList", len(l)))

\* OneFile::dna_2bit
dna_2bit(l) ==
    IF ~l.compressed THEN None
    ELSE Some(from_raw_parts("_oneCompressedList", DivideBy4(WordAdd(len(l), Word(0, 3)))))

\* OneFile::int_list
int_list(l) ==
    IF ~l.list THEN None
    ELSE Some(from_raw_parts("_oneList", len(l)))

\* OneFile::real_list
real_list(l) ==
    IF ~l.list THEN None
    ELSE Some(from_raw_parts("_oneList", len(l)))

ListCall(op, v) ==
    /\ lres' = [op |-> op, arg |-> 0, val |-> v]
    /\ UNCHANGED <<scanVars, openVars, schemaVars, fieldVars, closeVars, writeVars,
                   aindex, ires, lline>>

LenCall == ListCall("len", <<"i64", len(lline)>>)

DnaChar == ListCall("dna_char", dna_char(lline))

Dna2bit == ListCall("dna_2bit", dna_2bit(lline))

IntList == ListCall("int_list", int_list(lline))

RealList == ListCall("real_list", real_list(lline))

\* A handle on a line: its type in the schema or not, any top byte and a
\* length up to MaxLen in the list-length slot, a list or none.
ListStart ==
    /\ NoFileOpen
    /\ Fresh
    /\ OpenIdle /\ SchemaIdle /\ FieldIdle /\ CloseIdle /\ WriteIdle
    /\ aindex = NoIndex
    /\ ires = NoAccess
    /\ lres = NoAccess
    /\ \E info \in BOOLEAN, hi \in TopBytes, n \in 0..MaxLen, list, compressed \in BOOLEAN :
          lline = [info |-> info, len |-> Word(hi, n), list |-> list, compressed |-> compressed]

ListNext ==
    \/ LenCall
    \/ DnaChar
    \/ Dna2bit
    \/ IntList
    \/ RealList

SpecList == ListStart /\ [][ListNext]_vars

\* The value of the slot modulo 2^56, and the least number of bytes that hold
\* n bases at four to the byte.
SlotModulo == IF lline.info THEN LowValue(lline.len, 0) ELSE 0

Ceil4(n) == CHOOSE k \in 0..n : 4 * k >= n /\ 4 * (k - 1) < n

\* C38: len() returns the low 56 bits of the current line's list-length slot
\* (its value modulo 2^56) and 0 when the current line type has no schema
\* entry; the slice of dna_2bit() has ceil(len()/4) bytes and the slices of
\* dna_char, int_list and real_list have exactly len() elements.
C38_ListLengths ==
    /\ lres.op = "len" =>
          /\ lres.val[2] = Word(0, SlotModulo)
          /\ \A b \in Bits : lres.val[2][b] = IF b < MaskBits /\ lline.info THEN lline.len[b] ELSE 0
    /\ (lres.op = "dna_2bit" /\ lres.val[1] = "Some") =>
          lres.val[2].len = Word(0, Ceil4(SlotModulo))
    /\ (lres.op \in {"dna_char", "int_list", "real_list"} /\ lres.val[1] = "Some") =>
          lres.val[2].len = Word(0, SlotModulo)

\* A line of five list elements under a top byte that is not zero, and the
\* two-bit slice of two bytes returned for it.
C38_Witness ==
    /\ lline.info
    /\ lline.len = Word(128, 5)
    /\ lres.op = "dna_2bit"
    /\ lres.val = Some([ptr |-> "_oneCompressedList", len |-> Word(0, 2)])

====
